---- MODULE Spec2Model ----
(***************************************************************************)
(* Model of the Mitsubishi .100 pattern codec and builder                  *)
(* (mitsubishi_100_parser.py) and of the editor operations of              *)
(* pattern_gui_100.py that mutate or save the command list.                *)
(*                                                                         *)
(* A command is a record [command_type, x, y, raw_bytes]; raw_bytes = <<>> *)
(* stands for Python's None (both are falsy in `if cmd.raw_bytes`).        *)
(* A file is a sequence of bytes (0..255).                                 *)
(***************************************************************************)
EXTENDS Integers, Sequences, FiniteSets, TLC

VARIABLES
    commands,     \* Mitsubishi100Parser.commands (aliased by the editor's pattern_commands)
    current_x,    \* Mitsubishi100Parser.current_x
    current_y,    \* Mitsubishi100Parser.current_y
    last_save_x,  \* Mitsubishi100Parser._last_save_x (0 while the attribute is absent)
    last_save_y,  \* Mitsubishi100Parser._last_save_y
    file,         \* bytes of the pattern file on disk
    src,          \* bytes the command list was decoded from (<<>> for a new pattern)
    last_op,      \* the last operation called and its arguments
    n_ops,        \* operations called so far in a bounded session
    returned,     \* value returned by the last call (NoResult when it returns nothing of interest)
    data,         \* bytes handed to MitsubishiPatternParser._parse_binary_data
    commands_b,   \* MitsubishiPatternParser.commands (Format B)
    cursor_b      \* the cursor i of _parse_binary_data's while loop

vars == <<commands, current_x, current_y, last_save_x, last_save_y, file, src, last_op, n_ops,
          returned, data, commands_b, cursor_b>>

\* the variables of the Format A parser object and its file
vars_a == <<commands, current_x, current_y, last_save_x, last_save_y, file, src>>

\* the variables of the Format B parser object and its input
vars_b == <<data, commands_b, cursor_b>>

(***************************************************************************)
(* Bounds of the model                                                     *)
(***************************************************************************)
MaxOps == 4         \* Spec: operations per session
MaxCmds == 3        \* Spec: builder calls keep the list within this length
MaxBuild == 5       \* SpecBuild: builder calls keep the list within this length
MaxRecs == 2        \* SpecParse: records per input buffer

Byte == 0..255

\* Coordinates handed to add_stitch / add_move (Spec, SpecBuild).
Points == {<<0, 0>>, <<10, -7>>, <<130, 5>>}

BuildPoints == {<<0, 0>>, <<10, -7>>}

\* steps arguments handed to add_backtack: below 2, and the default 3.
Steps == {1, 3}

Cmd(t, px, py, raw) == [command_type |-> t, x |-> px, y |-> py, raw_bytes |-> raw]

Op(n, p, q) == [name |-> n, a |-> p, b |-> q]

\* A returned value: the operation, the values returned, and what its message
\* says (the kind of message, then the numbers it prints).
Result(o, v, m) == [op |-> o, value |-> v, info |-> m]

NoResult == Result("none", <<>>, <<>>)

(***************************************************************************)
(* Small arithmetic helpers                                                *)
(***************************************************************************)
Abs(v) == IF v < 0 THEN -v ELSE v

Min2(p, q) == IF p < q THEN p ELSE q

Max2(p, q) == IF p > q THEN p ELSE q

\* Python int() of a float quotient n/d, d > 0: truncation toward zero.
TruncDiv(n, d) == IF n >= 0 THEN n \div d ELSE -((-n) \div d)

\* Integer square root by Newton's iteration from the guess g.
RECURSIVE SqrtFrom(_, _)
SqrtFrom(n, g) ==
    LET h == (g + (n \div g)) \div 2
    IN  IF h >= g THEN g ELSE SqrtFrom(n, h)

\* int(n ** 0.5) for n >= 0
ISqrt(n) == IF n = 0 THEN 0 ELSE SqrtFrom(n, n)

(***************************************************************************)
(* int(start + (i / q) * d) in IEEE double arithmetic                      *)
(***************************************************************************)
\* floor(log2(n)) for n >= 1
RECURSIVE Log2Floor(_)
Log2Floor(n) == IF n < 2 THEN 0 ELSE 1 + Log2Floor(n \div 2)

\* n is a power of two (n >= 1)
IsPow2(n) == n = 2 ^ Log2Floor(n)

\* (n * 2^k) mod q
RECURSIVE ShiftMod(_, _, _)
ShiftMod(n, k, q) == IF k = 0 THEN n % q ELSE ShiftMod((2 * n) % q, k - 1, q)

\* the e >= 1 with 2^-e <= i/q < 2^-(e-1), for 0 < i < q
RECURSIVE BinExp(_, _, _)
BinExp(i, q, e) == IF q <= i * 2 ^ e THEN e ELSE BinExp(i, q, e + 1)

Sign(v) == IF v > 0 THEN 1 ELSE IF v < 0 THEN -1 ELSE 0

\* The value of the Python expression int(start + t * d) with t = i / q, for
\* integers start, d and 0 <= i <= q, q >= 1, every operation rounded to the
\* nearest double (ties to even). When q does not divide i * d the exact value
\* is at least 1/q away from every integer and the roundings cannot change
\* its integer part. When it does, m = i*d/q and w = start + m are integers:
\*   t = i/q has 2^-e <= t < 2^-(e-1) and is rounded by c / (q * 2^(52+e)),
\*   c the remainder of i * 2^(52+e) by q that is nearest to zero;
\*   t * d = m + c*d / (q * 2^(52+e)) is rounded to m, or to the double next
\*   to m on the side of c when the excess is more than half the spacing of
\*   the doubles on that side of |m| (2^(f-52), or 2^(f-53) below a power of
\*   two 2^f);
\*   start + (t * d) is rounded back to w unless the product moved toward the
\*   side of zero of w by more than half the spacing of the doubles below |w|;
\*   then int() yields the integer next to w toward zero.
\* Exponents are kept relative to -52.
int_lerp(start, d, i, q) ==
    IF (i * d) % q # 0 \/ i = 0 \/ i = q \/ d = 0
    THEN TruncDiv(start * q + i * d, q)
    ELSE
    LET m == (i * d) \div q
        w == start + m
        e == BinExp(i, q, 1)
        r == ShiftMod(i, 52 + e, q)
        c == IF 2 * r < q THEN -r ELSE q - r
        f == Log2Floor(Abs(m))
        \* |c*d| / (q * 2^(52+e)) > 2^(f-53-k)
        exceeds(k) == Abs(c) * Abs(d) * 2 ^ (1 + k) > q * 2 ^ (e + f)
        below_pow2 == c < 0 /\ IsPow2(Abs(m))
        moved == r # 0 /\ (IF below_pow2 THEN exceeds(1) ELSE exceeds(0))
        \* exponent of |product - m|
        eta == IF below_pow2 THEN f - 1 ELSE f
        g == Log2Floor(Abs(w))
        \* exponent of half the spacing of the doubles below |w|
        half_below == IF IsPow2(Abs(w)) THEN g - 2 ELSE g - 1
    IN  IF moved /\ w # 0 /\ Sign(m) * Sign(c) # Sign(w) /\ eta > half_below
        THEN w - Sign(w)
        ELSE w

(***************************************************************************)
(* Format A decode: _read_100_stitches                                     *)
(***************************************************************************)
decode_delta_ge(b) == IF b >= 128 THEN -(b - 128) ELSE b

\* if x > 0x80: x -= 0x80; x = -x
decode_delta(b) == IF b > 128 THEN -(b - 128) ELSE b

\* the same on byte 3, then y = -y
decode_y(b) == -decode_delta(b)

classify_no_backtack(op) ==
    IF op = 97 THEN "STITCH"
    ELSE IF op = 31 THEN "PATTERN_END"
    ELSE IF op % 2 # 0 THEN "MOVE"
    ELSE "COLOR_CHANGE"

\* the if / elif chain on b[0]
classify(op) ==
    IF op = 97 THEN "STITCH"
    ELSE IF op = 31 THEN "PATTERN_END"
    ELSE IF op = 3 THEN "BACKTACK"
    ELSE IF op % 2 # 0 THEN "MOVE"
    ELSE "COLOR_CHANGE"

\* PatternCommand(command_type=CommandType.END)
end_cmd == Cmd("END", 0, 0, <<>>)

RECURSIVE read_loop(_, _, _, _, _)
read_loop(buf, pos, cx, cy, cmds) ==
    IF Len(buf) - pos < 4
    THEN [commands |-> cmds, x |-> cx, y |-> cy]
    ELSE LET b == SubSeq(buf, pos + 1, pos + 4)
             nx == cx + decode_delta(b[3])
             ny == cy + decode_y(b[4])
             cmd == Cmd(classify(b[1]), nx, ny, b)
         IN  IF cmd.command_type = "PATTERN_END"
             THEN [commands |-> Append(cmds, cmd), x |-> nx, y |-> ny]
             ELSE read_loop(buf, pos + 4, nx, ny, Append(cmds, cmd))

RECURSIVE read_loop_no_break(_, _, _, _, _)
read_loop_no_break(buf, pos, cx, cy, cmds) ==
    IF Len(buf) - pos < 4
    THEN [commands |-> cmds, x |-> cx, y |-> cy]
    ELSE LET b == SubSeq(buf, pos + 1, pos + 4)
             nx == cx + decode_delta(b[3])
             ny == cy + decode_y(b[4])
             cmd == Cmd(classify(b[1]), nx, ny, b)
         IN  read_loop_no_break(buf, pos + 4, nx, ny, Append(cmds, cmd))

read_100_stitches_no_break(buf, cx, cy, cmds) ==
    LET r == read_loop_no_break(buf, 0, cx, cy, cmds)
    IN  [r EXCEPT !.commands = Append(@, end_cmd)]

\* the while loop, then the End sentinel
read_100_stitches(buf, cx, cy, cmds) ==
    LET r == read_loop(buf, 0, cx, cy, cmds)
    IN  [r EXCEPT !.commands = Append(@, end_cmd)]

parse_file_keep_position(buf) == read_100_stitches(buf, current_x, current_y, <<>>)

\* parse_file: reset commands and the running position, then read the file
parse_file(buf) == read_100_stitches(buf, 0, 0, <<>>)

(***************************************************************************)
(* Format A encode: save_to_file / _generate_raw_bytes                     *)
(***************************************************************************)
cmd_byte_no_backtack(t) ==
    IF t = "STITCH" THEN 97
    ELSE IF t = "MOVE" THEN 1
    ELSE IF t = "COLOR_CHANGE" THEN 2
    ELSE IF t = "PATTERN_END" THEN 31
    ELSE 1

cmd_byte(t) ==
    IF t = "STITCH" THEN 97
    ELSE IF t = "MOVE" THEN 1
    ELSE IF t = "COLOR_CHANGE" THEN 2
    ELSE IF t = "BACKTACK" THEN 3
    ELSE IF t = "PATTERN_END" THEN 31
    ELSE 1

\* max(-127, min(127, delta))
clamp_delta(d) == Max2(-127, Min2(127, d))

encode_delta(d) == IF d >= 0 THEN d ELSE Abs(d) + 128

generate_raw_bytes_y_not_negated(cmd, px, py) ==
    IF cmd.command_type = "END"
    THEN [bytes |-> <<>>, x |-> px, y |-> py]
    ELSE LET delta_x == clamp_delta(cmd.x - px)
             delta_y == clamp_delta(cmd.y - py)
             x_byte == encode_delta(delta_x)
             y_byte == encode_delta(delta_y)
         IN  [bytes |-> <<cmd_byte(cmd.command_type), 0, x_byte, y_byte>>,
              x |-> cmd.x, y |-> cmd.y]

generate_raw_bytes_reconstructed(cmd, px, py) ==
    IF cmd.command_type = "END"
    THEN [bytes |-> <<>>, x |-> px, y |-> py]
    ELSE LET delta_x == clamp_delta(cmd.x - px)
             delta_y == clamp_delta(cmd.y - py)
             x_byte == encode_delta(delta_x)
             y_byte == encode_delta(-delta_y)
         IN  [bytes |-> <<cmd_byte(cmd.command_type), 0, x_byte, y_byte>>,
              x |-> px + delta_x, y |-> py + delta_y]

\* Result: the record's bytes and the updated _last_save_x / _last_save_y.
generate_raw_bytes(cmd, px, py) ==
    IF cmd.command_type = "END"
    THEN [bytes |-> <<>>, x |-> px, y |-> py]
    ELSE LET delta_x == clamp_delta(cmd.x - px)
             delta_y == clamp_delta(cmd.y - py)
             x_byte == encode_delta(delta_x)
             y_byte == encode_delta(-delta_y)
         IN  [bytes |-> <<cmd_byte(cmd.command_type), 0, x_byte, y_byte>>,
              x |-> cmd.x, y |-> cmd.y]

RECURSIVE save_loop(_, _, _, _, _)
save_loop(cmds, i, px, py, out) ==
    IF i > Len(cmds)
    THEN [bytes |-> out, x |-> px, y |-> py]
    ELSE IF cmds[i].raw_bytes # <<>>
         THEN save_loop(cmds, i + 1, px, py, out \o cmds[i].raw_bytes)
         ELSE LET g == generate_raw_bytes(cmds[i], px, py)
              IN  save_loop(cmds, i + 1, g.x, g.y, out \o g.bytes)

RECURSIVE save_loop_regen(_, _, _, _, _)
save_loop_regen(cmds, i, px, py, out) ==
    IF i > Len(cmds)
    THEN [bytes |-> out, x |-> px, y |-> py]
    ELSE LET g == generate_raw_bytes(cmds[i], px, py)
         IN  save_loop_regen(cmds, i + 1, g.x, g.y, out \o g.bytes)

save_to_file_regen(cmds, px, py) == save_loop_regen(cmds, 1, px, py, <<>>)

\* Result: the bytes written and the _last_save_x / _last_save_y left behind.
save_to_file(cmds, px, py) == save_loop(cmds, 1, px, py, <<>>)

(***************************************************************************)
(* Pattern builder                                                         *)
(***************************************************************************)
\* create_new_pattern leaves an empty list and a zero running position.

add_stitch_over_last(cmds, px, py) ==
    IF cmds = <<>> THEN <<Cmd("STITCH", px, py, <<>>)>>
    ELSE [cmds EXCEPT ![Len(cmds)] = Cmd("STITCH", px, py, <<>>)]

add_stitch(cmds, px, py) == Append(cmds, Cmd("STITCH", px, py, <<>>))

add_move(cmds, px, py) == Append(cmds, Cmd("MOVE", px, py, <<>>))

\* for cmd in reversed(commands): first command whose type is in `types`,
\* (0, 0) when there is none
RECURSIVE last_position(_, _, _)
last_position(cmds, i, types) ==
    IF i = 0 THEN <<0, 0>>
    ELSE IF cmds[i].command_type \in types THEN <<cmds[i].x, cmds[i].y>>
    ELSE last_position(cmds, i - 1, types)

add_color_change_after_backtack(cmds) ==
    LET p == last_position(cmds, Len(cmds), {"STITCH", "MOVE", "BACKTACK"})
    IN  Append(cmds, Cmd("COLOR_CHANGE", p[1], p[2], <<>>))

add_color_change(cmds) ==
    LET p == last_position(cmds, Len(cmds), {"STITCH", "MOVE"})
    IN  Append(cmds, Cmd("COLOR_CHANGE", p[1], p[2], <<>>))

\* the loop that fills recent_stitches, walking the list backwards from index i
RECURSIVE recent_stitches(_, _, _, _)
recent_stitches(cmds, i, steps, acc) ==
    IF i = 0 THEN acc
    ELSE LET acc2 == IF cmds[i].command_type = "STITCH" /\ Len(acc) < steps
                     THEN <<<<cmds[i].x, cmds[i].y>>>> \o acc
                     ELSE acc
         IN  IF Len(acc2) >= steps THEN acc2
             ELSE recent_stitches(cmds, i - 1, steps, acc2)

backtack_simple_fixed(cmds, length) ==
    LET cx == IF Len(cmds) > 0 THEN cmds[Len(cmds)].x ELSE 0
        cy == IF Len(cmds) > 0 THEN cmds[Len(cmds)].y ELSE 0
    IN  [k \in 1..length |-> Cmd("BACKTACK", cx, cy, <<>>)]

\* the "simple pattern" branch: length points alternating x+0 / x+1
backtack_simple(cmds, length) ==
    LET cx == IF Len(cmds) > 0 THEN cmds[Len(cmds)].x ELSE 0
        cy == IF Len(cmds) > 0 THEN cmds[Len(cmds)].y ELSE 0
    IN  [k \in 1..length |-> Cmd("BACKTACK", cx + ((k - 1) % 2), cy, <<>>)]

backtack_directional_rounded(recent, length) ==
    LET start == recent[Len(recent)]
        prev == recent[Len(recent) - 1]
        dx == start[1] - prev[1]
        dy == start[2] - prev[2]
        step_size == Min2(Max2(1, ISqrt(4 * (dx * dx + dy * dy)) - ISqrt(dx * dx + dy * dy)), 10)
        point(i) ==
            IF i % 2 = 0
            THEN <<start[1] - ((dx * ((i \div 2) + 1)) \div step_size),
                   start[2] - ((dy * ((i \div 2) + 1)) \div step_size)>>
            ELSE <<start[1] + ((dx * (i \div 2)) \div step_size),
                   start[2] + ((dy * (i \div 2)) \div step_size)>>
    IN  [k \in 1..length |-> Cmd("BACKTACK", point(k - 1)[1], point(k - 1)[2], <<>>)]

\* the directional branch; recent holds at least two stitches
backtack_directional(recent, length) ==
    LET start == recent[Len(recent)]
        prev == recent[Len(recent) - 1]
        dx == start[1] - prev[1]
        dy == start[2] - prev[2]
        step_size == Min2(Max2(1, ISqrt(dx * dx + dy * dy)), 10)
        point(i) ==
            IF i % 2 = 0
            THEN <<start[1] - ((dx * ((i \div 2) + 1)) \div step_size),
                   start[2] - ((dy * ((i \div 2) + 1)) \div step_size)>>
            ELSE <<start[1] + ((dx * (i \div 2)) \div step_size),
                   start[2] + ((dy * (i \div 2)) \div step_size)>>
    IN  [k \in 1..length |-> Cmd("BACKTACK", point(k - 1)[1], point(k - 1)[2], <<>>)]

add_backtack(cmds, length, steps) ==
    LET recent == recent_stitches(cmds, Len(cmds), steps, <<>>)
    IN  IF Len(recent) < 2
        THEN cmds \o backtack_simple(cmds, length)
        ELSE cmds \o backtack_directional(recent, length)

add_pattern_end_no_backtack(cmds) ==
    LET p == last_position(cmds, Len(cmds), {"STITCH", "MOVE"})
    IN  Append(cmds, Cmd("PATTERN_END", p[1], p[2], <<>>))

add_pattern_end(cmds) ==
    LET p == last_position(cmds, Len(cmds), {"STITCH", "MOVE", "BACKTACK"})
    IN  Append(cmds, Cmd("PATTERN_END", p[1], p[2], <<>>))

add_full_ending_sequence_no_stop(cmds, backtack_length) ==
    add_pattern_end(add_backtack(cmds, backtack_length, 3))

\* add_color_change(); add_backtack(backtack_length) with steps = 3; add_pattern_end()
add_full_ending_sequence(cmds, backtack_length) ==
    add_pattern_end(add_backtack(add_color_change(cmds), backtack_length, 3))

(***************************************************************************)
(* Pattern builder: lines and rectangles                                   *)
(***************************************************************************)
\* The stitches of add_stitch_line / add_stitch_line_segment from index
\* start_index on. stitch_spacing is a positive integer here:
\* int(sqrt(d2) / spacing) = ISqrt(d2 div spacing^2), the quotient being an
\* integer or at least 1/spacing away from one; the points are
\* int(start + t * d) with t = i / (num_stitches - 1), in double arithmetic.
line_stitches(start_x, start_y, end_x, end_y, stitch_spacing, start_index) ==
    LET dx == end_x - start_x
        dy == end_y - start_y
        d2 == dx * dx + dy * dy
        num_stitches == Max2(2, ISqrt(d2 \div (stitch_spacing * stitch_spacing)) + 1)
        point(i) == Cmd("STITCH",
                        int_lerp(start_x, dx, i, num_stitches - 1),
                        int_lerp(start_y, dy, i, num_stitches - 1),
                        <<>>)
    IN  IF d2 = 0
        THEN IF start_index = 0 THEN <<Cmd("STITCH", start_x, start_y, <<>>)>> ELSE <<>>
        ELSE [k \in 1..(num_stitches - start_index) |-> point(k - 1 + start_index)]

add_stitch_line(cmds, start_x, start_y, end_x, end_y, stitch_spacing) ==
    cmds \o line_stitches(start_x, start_y, end_x, end_y, stitch_spacing, 0)

add_stitch_line_segment(cmds, start_x, start_y, end_x, end_y, stitch_spacing, skip_first) ==
    cmds \o line_stitches(start_x, start_y, end_x, end_y, stitch_spacing,
                          IF skip_first THEN 1 ELSE 0)

add_rectangle_stitches_full_edges(cmds, center_x, center_y, width, height, stitch_spacing) ==
    LET half_w == width \div 2
        half_h == height \div 2
        c1 == <<center_x - half_w, center_y - half_h>>
        c2 == <<center_x + half_w, center_y - half_h>>
        c3 == <<center_x + half_w, center_y + half_h>>
        c4 == <<center_x - half_w, center_y + half_h>>
        e1 == add_stitch_line(add_move(cmds, c1[1], c1[2]),
                              c1[1], c1[2], c2[1], c2[2], stitch_spacing)
        e2 == add_stitch_line_segment(e1, c2[1], c2[2], c3[1], c3[2], stitch_spacing, FALSE)
        e3 == add_stitch_line_segment(e2, c3[1], c3[2], c4[1], c4[2], stitch_spacing, FALSE)
    IN  add_stitch_line_segment(e3, c4[1], c4[2], c1[1], c1[2], stitch_spacing, FALSE)

\* add_move to the first corner, the first edge in full, the other three
\* edges without their first point
add_rectangle_stitches(cmds, center_x, center_y, width, height, stitch_spacing) ==
    LET half_w == width \div 2
        half_h == height \div 2
        c1 == <<center_x - half_w, center_y - half_h>>
        c2 == <<center_x + half_w, center_y - half_h>>
        c3 == <<center_x + half_w, center_y + half_h>>
        c4 == <<center_x - half_w, center_y + half_h>>
        e1 == add_stitch_line(add_move(cmds, c1[1], c1[2]),
                              c1[1], c1[2], c2[1], c2[2], stitch_spacing)
        e2 == add_stitch_line_segment(e1, c2[1], c2[2], c3[1], c3[2], stitch_spacing, TRUE)
        e3 == add_stitch_line_segment(e2, c3[1], c3[2], c4[1], c4[2], stitch_spacing, TRUE)
    IN  add_stitch_line_segment(e3, c4[1], c4[2], c1[1], c1[2], stitch_spacing, TRUE)

(***************************************************************************)
(* QR generator: generate_qr_code                                          *)
(***************************************************************************)
\* The qrcode library enters as what it answers: `need` is the smallest QR
\* version that holds the text at the requested error correction level (41
\* when no version does: DataOverflowError), `available` whether the import
\* succeeds, and `dark` the dark modules of the matrix (row, column, border
\* included) whose stitching the model follows.

\* QRCode.modules_count of a version
modules_count(version) == 17 + 4 * version

\* border=4 on each side of the matrix get_matrix() returns
border == 4

\* for version in range(1, 11): keep the last version that holds the text and
\* fits max_modules; break at the first that does not
RECURSIVE try_versions(_, _, _, _)
try_versions(need, max_modules, version, found) ==
    IF version > 10 THEN found
    ELSE IF version < need THEN found
    ELSE IF modules_count(version) <= max_modules
         THEN try_versions(need, max_modules, version + 1, version)
         ELSE found

\* str.upper() on the error correction letters
upper(l) ==
    CASE l = "l" -> "L" [] l = "m" -> "M" [] l = "q" -> "Q" [] l = "h" -> "H" [] OTHER -> l

capacity_map ==
    << <<41, 34, 27, 17>>, <<77, 63, 48, 34>>, <<127, 101, 77, 58>>, <<187, 149, 111, 82>>,
       <<255, 202, 144, 106>>, <<322, 255, 178, 139>>, <<370, 293, 207, 154>>,
       <<461, 365, 259, 202>>, <<552, 432, 312, 235>>, <<652, 513, 364, 288>> >>

\* int(capacity_map.get(version_used, {}).get(error_correction.upper(), 0) * 0.6)
alphanumeric_capacity(version_used, error_correction) ==
    LET l == upper(error_correction)
        col == CASE l = "L" -> 1 [] l = "M" -> 2 [] l = "Q" -> 3 [] l = "H" -> 4 [] OTHER -> 0
        numeric_capacity == IF version_used \in 1..10 /\ col > 0
                            THEN capacity_map[version_used][col] ELSE 0
    IN  (numeric_capacity * 6) \div 10

\* The first module of `dark` in the order of the loops over rows and columns.
first_module(dark) ==
    CHOOSE m \in dark : \A o \in dark : m[1] < o[1] \/ (m[1] = o[1] /\ m[2] <= o[2])

\* for i, row in enumerate(matrix): for j, is_black in enumerate(row): ...
RECURSIVE stitch_modules(_, _, _, _, _, _)
stitch_modules(cmds, dark, start_x, start_y, module_size, stitch_spacing) ==
    IF dark = {} THEN cmds
    ELSE LET m == first_module(dark)
             module_center_x == start_x + m[2] * module_size + module_size \div 2
             module_center_y == start_y + m[1] * module_size + module_size \div 2
             side == Max2(4, module_size - 2)
         IN  stitch_modules(
                 add_rectangle_stitches(cmds, module_center_x, module_center_y,
                                        side, side, stitch_spacing),
                 dark \ {m}, start_x, start_y, module_size, stitch_spacing)

\* return (False, message, 0)
qr_failure(cmds, m) ==
    [commands |-> cmds, result |-> Result("generate_qr_code", <<FALSE, 0>>, m)]

\* Result: the command list and the (success, info, data_capacity) returned.
generate_qr_code(cmds, q) ==
    IF ~q.available THEN qr_failure(cmds, <<"not_available">>)
    ELSE IF q.module_size = 0 THEN qr_failure(cmds, <<"error">>)
    ELSE
    LET max_modules == 180 \div q.module_size
        fitted == try_versions(q.need, max_modules, 1, 0)
        version_used == IF fitted = 0 THEN q.need ELSE fitted
        qr_size == modules_count(version_used) + 2 * border
        total_size == qr_size * q.module_size
        start_x == q.center_x - total_size \div 2
        start_y == q.center_y - total_size \div 2
        half_size == total_size \div 2
        stitched == stitch_modules(cmds, q.dark, start_x, start_y,
                                   q.module_size, q.stitch_spacing)
        capacity == alphanumeric_capacity(version_used, q.error_correction)
    IN  IF fitted = 0 /\ q.need > 40 THEN qr_failure(cmds, <<"error">>)
        ELSE IF fitted = 0 /\ modules_count(version_used) > max_modules
        THEN qr_failure(cmds, <<"too_large", modules_count(version_used), max_modules>>)
        ELSE IF \/ Abs(q.center_x + half_size) > 100 \/ Abs(q.center_x - half_size) > 100
                \/ Abs(q.center_y + half_size) > 100 \/ Abs(q.center_y - half_size) > 100
        THEN qr_failure(cmds, <<"beyond_area">>)
        ELSE [commands |-> stitched,
              result |-> Result("generate_qr_code", <<TRUE, capacity>>,
                                <<"ok", version_used, qr_size, Cardinality(q.dark), capacity>>)]

(***************************************************************************)
(* Editor: center_pattern (Machine Settings dialog)                        *)
(***************************************************************************)
Motion == {"STITCH", "MOVE", "BACKTACK"}

SetMin(S) == CHOOSE m \in S : \A o \in S : m <= o

SetMax(S) == CHOOSE m \in S : \A o \in S : m >= o

\* center = (min + max) / 2 as a float; cmd.x = int(cmd.x - center)
center_pattern(cmds) ==
    LET idx == {i \in 1..Len(cmds) : cmds[i].command_type \in Motion}
        xs == {cmds[i].x : i \in idx}
        ys == {cmds[i].y : i \in idx}
    IN  IF idx = {} THEN cmds
        ELSE [i \in 1..Len(cmds) |->
                 IF i \in idx
                 THEN [cmds[i] EXCEPT
                          !.x = TruncDiv(2 * cmds[i].x - (SetMin(xs) + SetMax(xs)), 2),
                          !.y = TruncDiv(2 * cmds[i].y - (SetMin(ys) + SetMax(ys)), 2)]
                 ELSE cmds[i]]

(***************************************************************************)
(* Analytics: get_pattern_bounds                                           *)
(***************************************************************************)
\* (min_x, min_y, max_x, max_y) over the commands whose type is in `types`,
\* (0, 0, 0, 0) when there is none
bounds_over(cmds, types) ==
    LET idx == {i \in 1..Len(cmds) : cmds[i].command_type \in types}
        xs == {cmds[i].x : i \in idx}
        ys == {cmds[i].y : i \in idx}
    IN  IF idx = {} THEN <<0, 0, 0, 0>>
        ELSE <<SetMin(xs), SetMin(ys), SetMax(xs), SetMax(ys)>>

\* coords = [(cmd.x, cmd.y) for cmd in self.commands if cmd.command_type in [STITCH, MOVE]]
get_pattern_bounds(cmds) == bounds_over(cmds, {"STITCH", "MOVE"})

(***************************************************************************)
(* Analytics: get_pattern_stats                                            *)
(***************************************************************************)
\* The walk of get_pattern_stats over the commands from index i on, with
\* (last_x, last_y) the previous point: the commands whose type is in `types`
\* add a segment unless the previous point is (0, 0), and become the previous
\* point. A segment is kept as its squared length dx*dx + dy*dy, in the order
\* of the walk; path_length is the sum of their square roots.
RECURSIVE path_segments(_, _, _, _, _)
path_segments(cmds, i, last_x, last_y, types) ==
    IF i > Len(cmds) THEN <<>>
    ELSE IF cmds[i].command_type \in types
         THEN LET dx == cmds[i].x - last_x
                  dy == cmds[i].y - last_y
                  seg == IF last_x # 0 \/ last_y # 0 THEN <<dx * dx + dy * dy>> ELSE <<>>
              IN  seg \o path_segments(cmds, i + 1, cmds[i].x, cmds[i].y, types)
         ELSE path_segments(cmds, i + 1, last_x, last_y, types)

\* number of commands of type t
count_of(cmds, t) == Cardinality({i \in 1..Len(cmds) : cmds[i].command_type = t})

stats_over(cmds, types) ==
    [total_commands |-> Len(cmds),
     stitch_count |-> count_of(cmds, "STITCH"),
     move_count |-> count_of(cmds, "MOVE"),
     color_changes |-> count_of(cmds, "COLOR_CHANGE"),
     path_length |-> path_segments(cmds, 1, 0, 0, types)]

\* the if / elif chain of the loop handles STITCH, MOVE and COLOR_CHANGE
get_pattern_stats(cmds) == stats_over(cmds, {"STITCH", "MOVE"})

(***************************************************************************)
(* Format B decode: MitsubishiPatternParser._parse_binary_data             *)
(***************************************************************************)
\* A Format B command; function_code "NONE" stands for Python's None.
CmdB(t, px, py, params, raw, fc) ==
    [command_type |-> t, x |-> px, y |-> py, parameters |-> params,
     raw_data |-> raw, function_code |-> fc]

unpack_H_big_endian(lo, hi) == 256 * lo + hi

\* struct.unpack('<H', two bytes)
unpack_H(lo, hi) == lo + 256 * hi

FunctionCode_swapped(v) ==
    CASE v = 2 -> "FEED"
      [] v = 3 -> "THREAD_TRIMMING"
      [] v = 4 -> "HALT"
      [] v = 5 -> "REVERSE_ROTATION"
      [] v = 6 -> "SECOND_HOME_POSITION"
      [] v = 7 -> "BASTING"
      [] v = 49 -> "END_DATA"
      [] OTHER -> "NONE"

\* FunctionCode(func_code), "NONE" where the enum raises ValueError
FunctionCode(v) ==
    CASE v = 3 -> "FEED"
      [] v = 2 -> "THREAD_TRIMMING"
      [] v = 4 -> "HALT"
      [] v = 5 -> "REVERSE_ROTATION"
      [] v = 6 -> "SECOND_HOME_POSITION"
      [] v = 7 -> "BASTING"
      [] v = 49 -> "END_DATA"
      [] OTHER -> "NONE"

\* data[i:j] of Python (0-based, j exclusive), for 0 <= i <= j
Slice(buf, i, j) == SubSeq(buf, i + 1, Min2(j, Len(buf)))

\* The branches that read [data[i+1], data[i+2], data[i+3]] as parameters.
params_record(buf, i, t) ==
    IF i + 3 < Len(buf)
    THEN [cmds |-> <<CmdB(t, 0, 0, <<buf[i + 2], buf[i + 3], buf[i + 4]>>,
                          Slice(buf, i, i + 4), "NONE")>>,
          next |-> i + 4]
    ELSE [cmds |-> <<>>, next |-> i + 1]

\* The branches of 0x61 and 0xE1: x = data[i+1], y = u16 at data[i+2:i+4].
point_record(buf, i, t) ==
    IF i + 3 < Len(buf)
    THEN [cmds |-> <<CmdB(t, buf[i + 2], unpack_H(buf[i + 3], buf[i + 4]), <<>>,
                          Slice(buf, i, i + 4), "NONE")>>,
          next |-> i + 4]
    ELSE [cmds |-> <<>>, next |-> i + 1]

\* The branch of 0x03: x = u16 at data[i+1:i+3], y = u16 at data[i+3:i+5].
linear_record(buf, i) ==
    IF i + 4 < Len(buf)
    THEN [cmds |-> <<CmdB("LINEAR_MOVE", unpack_H(buf[i + 2], buf[i + 3]),
                          unpack_H(buf[i + 4], buf[i + 5]), <<>>,
                          Slice(buf, i, i + 5), "NONE")>>,
          next |-> i + 5]
    ELSE [cmds |-> <<>>, next |-> i + 1]

\* The branch of 0x1F: parameters, and the function code of the first two.
function_record(buf, i) ==
    IF i + 3 < Len(buf)
    THEN [cmds |-> <<CmdB("FUNCTION", 0, 0, <<buf[i + 2], buf[i + 3], buf[i + 4]>>,
                          Slice(buf, i, i + 4),
                          FunctionCode(unpack_H(buf[i + 2], buf[i + 3])))>>,
          next |-> i + 4]
    ELSE [cmds |-> <<>>, next |-> i + 1]

unknown_record_skipped(buf, i) == [cmds |-> <<>>, next |-> i + 1]

\* The else branch: an UNKNOWN command of one byte.
unknown_record(buf, i) ==
    [cmds |-> <<CmdB("UNKNOWN", 0, 0, <<buf[i + 1]>>, Slice(buf, i, i + 1), "NONE")>>,
     next |-> i + 1]

parse_step_reread(buf, i) ==
    LET b0 == buf[i + 1]
    IN  IF b0 = 3 THEN [linear_record(buf, i) EXCEPT !.next = i + 4]
        ELSE IF b0 = 97 THEN point_record(buf, i, "POINT")
        ELSE IF b0 = 225 THEN point_record(buf, i, "CIRCULAR")
        ELSE IF b0 = 130 THEN params_record(buf, i, "ARC")
        ELSE IF b0 = 131 THEN params_record(buf, i, "CURVE")
        ELSE IF b0 = 2 THEN params_record(buf, i, "SPEED")
        ELSE IF b0 = 31 THEN function_record(buf, i)
        ELSE IF b0 = 1 THEN params_record(buf, i, "SEPARATOR")
        ELSE unknown_record(buf, i)

\* One iteration of the while loop at cursor i (0-based, i < len(data)): the
\* commands it appends and the cursor it leaves.
parse_step(buf, i) ==
    LET b0 == buf[i + 1]
    IN  IF b0 = 3 THEN linear_record(buf, i)
        ELSE IF b0 = 97 THEN point_record(buf, i, "POINT")
        ELSE IF b0 = 225 THEN point_record(buf, i, "CIRCULAR")
        ELSE IF b0 = 130 THEN params_record(buf, i, "ARC")
        ELSE IF b0 = 131 THEN params_record(buf, i, "CURVE")
        ELSE IF b0 = 2 THEN params_record(buf, i, "SPEED")
        ELSE IF b0 = 31 THEN function_record(buf, i)
        ELSE IF b0 = 1 THEN params_record(buf, i, "SEPARATOR")
        ELSE unknown_record(buf, i)

\* get_coordinates, then min / max over them
get_bounding_box(cmds) == bounds_over(cmds, {"POINT", "LINEAR_MOVE", "CIRCULAR"})

(***************************************************************************)
(* Operations                                                              *)
(***************************************************************************)
\* Mitsubishi100Parser.get_pattern_bounds
GetPatternBounds ==
    /\ returned' = Result("get_pattern_bounds", get_pattern_bounds(commands), <<>>)
    /\ last_op' = Op("get_pattern_bounds", 0, 0)
    /\ UNCHANGED vars_a

\* Mitsubishi100Parser.get_pattern_stats
GetPatternStats ==
    /\ returned' = Result("get_pattern_stats", get_pattern_stats(commands), <<>>)
    /\ last_op' = Op("get_pattern_stats", 0, 0)
    /\ UNCHANGED vars_a

\* Mitsubishi100Parser.parse_file
ParseFile ==
    LET r == parse_file(file)
    IN  /\ commands' = r.commands
        /\ current_x' = r.x
        /\ current_y' = r.y
        /\ src' = file
        /\ last_op' = Op("parse_file", 0, 0)
        /\ returned' = NoResult
        /\ UNCHANGED <<last_save_x, last_save_y, file>>

\* Mitsubishi100Parser.save_to_file
SaveToFile ==
    LET r == save_to_file(commands, last_save_x, last_save_y)
    IN  /\ file' = r.bytes
        /\ last_save_x' = r.x
        /\ last_save_y' = r.y
        /\ last_op' = Op("save_to_file", 0, 0)
        /\ returned' = NoResult
        /\ UNCHANGED <<commands, current_x, current_y, src>>

\* PatternEditorGUI.save_pattern / save_pattern_as: reset the save position, then save
SavePattern ==
    /\ commands # <<>>
    /\ LET r == save_to_file(commands, 0, 0)
       IN  /\ file' = r.bytes
           /\ last_save_x' = r.x
           /\ last_save_y' = r.y
    /\ last_op' = Op("save_pattern", 0, 0)
    /\ returned' = NoResult
    /\ UNCHANGED <<commands, current_x, current_y, src>>

\* Mitsubishi100Parser.create_new_pattern
CreateNewPattern ==
    /\ commands' = <<>>
    /\ current_x' = 0
    /\ current_y' = 0
    /\ src' = <<>>
    /\ last_op' = Op("create_new_pattern", 0, 0)
    /\ returned' = NoResult
    /\ UNCHANGED <<last_save_x, last_save_y, file>>

\* A builder call that turns the list into `result`; cap bounds the list's length.
Build(cap, result, op) ==
    /\ Len(result) <= cap
    /\ commands' = result
    /\ last_op' = op
    /\ returned' = NoResult
    /\ UNCHANGED <<current_x, current_y, last_save_x, last_save_y, file, src>>

AddStitch(cap, pts) ==
    \E p \in pts : Build(cap, add_stitch(commands, p[1], p[2]), Op("add_stitch", p[1], p[2]))

AddMove(cap, pts) ==
    \E p \in pts : Build(cap, add_move(commands, p[1], p[2]), Op("add_move", p[1], p[2]))

AddColorChange(cap) ==
    Build(cap, add_color_change(commands), Op("add_color_change", 0, 0))

AddBacktack(cap) ==
    \E length \in 0..(cap - Len(commands)), steps \in Steps :
        Build(cap, add_backtack(commands, length, steps), Op("add_backtack", length, steps))

AddPatternEnd(cap) ==
    Build(cap, add_pattern_end(commands), Op("add_pattern_end", 0, 0))

AddFullEndingSequence(cap) ==
    \E n \in 0..(cap - Len(commands) - 2) :
        Build(cap, add_full_ending_sequence(commands, n), Op("add_full_ending_sequence", n, 0))

\* The arguments of a line call.
LineArgs(sx, sy, ex, ey, sp, skip) ==
    [start_x |-> sx, start_y |-> sy, end_x |-> ex, end_y |-> ey,
     stitch_spacing |-> sp, skip_first |-> skip]

\* The arguments of a rectangle call.
RectArgs(cx, cy, w, h, sp) ==
    [center_x |-> cx, center_y |-> cy, width |-> w, height |-> h, stitch_spacing |-> sp]

\* A builder call with the arguments q.
BuildWith(cap, result, name, q) ==
    /\ Len(result) <= cap
    /\ commands' = result
    /\ last_op' = [name |-> name, a |-> 0, b |-> 0, args |-> q]
    /\ returned' = NoResult
    /\ UNCHANGED <<current_x, current_y, last_save_x, last_save_y, file, src>>

AddStitchLine(cap, lines) ==
    \E q \in lines :
        BuildWith(cap, add_stitch_line(commands, q.start_x, q.start_y, q.end_x, q.end_y,
                                       q.stitch_spacing),
                  "add_stitch_line", q)

AddStitchLineSegment(cap, lines) ==
    \E q \in lines :
        BuildWith(cap, add_stitch_line_segment(commands, q.start_x, q.start_y, q.end_x, q.end_y,
                                               q.stitch_spacing, q.skip_first),
                  "add_stitch_line_segment", q)

AddRectangleStitches(cap, rects) ==
    \E q \in rects :
        BuildWith(cap, add_rectangle_stitches(commands, q.center_x, q.center_y, q.width,
                                              q.height, q.stitch_spacing),
                  "add_rectangle_stitches", q)

\* PatternEditorGUI.show_machine_settings.center_pattern
CenterPattern ==
    /\ commands # <<>>
    /\ commands' = center_pattern(commands)
    /\ last_op' = Op("center_pattern", 0, 0)
    /\ returned' = NoResult
    /\ UNCHANGED <<current_x, current_y, last_save_x, last_save_y, file, src>>

\* MitsubishiPatternParser.parse_file of the pattern file, up to the first
\* test of the while loop of _parse_binary_data
ParseFileB ==
    /\ cursor_b >= Len(data)
    /\ data' = file
    /\ commands_b' = <<>>
    /\ cursor_b' = 0
    /\ returned' = NoResult
    /\ last_op' = Op("parse_file_b", 0, 0)

\* One iteration of the while loop of _parse_binary_data
ParseStepB ==
    /\ cursor_b < Len(data)
    /\ LET r == parse_step(data, cursor_b)
       IN  /\ commands_b' = commands_b \o r.cmds
           /\ cursor_b' = r.next
    /\ UNCHANGED <<data, returned, last_op>>

\* MitsubishiPatternParser.get_bounding_box, called once parse_file has returned
GetBoundingBox ==
    /\ cursor_b >= Len(data)
    /\ returned' = Result("get_bounding_box", get_bounding_box(commands_b), <<>>)
    /\ last_op' = Op("get_bounding_box", 0, 0)
    /\ UNCHANGED vars_b

\* Mitsubishi100Parser.generate_qr_code with the arguments and library answers q
GenerateQrCode(cap, inputs) ==
    \E q \in inputs :
        LET r == generate_qr_code(commands, q)
        IN  /\ Len(r.commands) <= cap
            /\ commands' = r.commands
            /\ returned' = r.result
            /\ last_op' = [name |-> "generate_qr_code", a |-> q.center_x, b |-> q.center_y,
                           args |-> q]
            /\ UNCHANGED <<current_x, current_y, last_save_x, last_save_y, file, src>>

(***************************************************************************)
(* Specifications                                                          *)
(***************************************************************************)
\* Pattern files found on disk by an editing session.
SessionFiles ==
    { <<97, 0, 10, 0>>,
      <<97, 0, 10, 0, 31, 0, 0, 0>>,
      <<1, 0, 138, 5, 97, 7, 20, 133>> }

\* MitsubishiPatternParser.__init__, nothing parsed
FreshB ==
    /\ data = <<>>
    /\ commands_b = <<>>
    /\ cursor_b = 0

Fresh ==
    /\ FreshB
    /\ commands = <<>>
    /\ current_x = 0
    /\ current_y = 0
    /\ last_save_x = 0
    /\ last_save_y = 0
    /\ src = <<>>
    /\ last_op = Op("init", 0, 0)
    /\ n_ops = 0
    /\ returned = NoResult

\* An operation of a session of at most MaxOps operations.
Tick(A) == n_ops < MaxOps /\ A /\ n_ops' = n_ops + 1 /\ UNCHANGED vars_b

\* An operation of a session of any length.
Free(A) == A /\ UNCHANGED n_ops /\ UNCHANGED vars_b

\* Spec: one parser object used by an editing session (load, build, edit, save).
Init == Fresh /\ file \in SessionFiles

Next ==
    \/ Tick(ParseFile)
    \/ Tick(SaveToFile)
    \/ Tick(SavePattern)
    \/ Tick(CreateNewPattern)
    \/ Tick(AddStitch(MaxCmds, Points))
    \/ Tick(AddMove(MaxCmds, Points))
    \/ Tick(AddColorChange(MaxCmds))
    \/ Tick(AddBacktack(MaxCmds))
    \/ Tick(AddPatternEnd(MaxCmds))
    \/ Tick(AddFullEndingSequence(MaxCmds))
    \/ Tick(CenterPattern)
    \/ Tick(GetPatternBounds)

Spec == Init /\ [][Next]_vars

\* SpecBuild: the builder on an empty or a decoded list, nothing is saved.
NextBuild ==
    \/ Free(ParseFile)
    \/ Free(CreateNewPattern)
    \/ Free(AddStitch(MaxBuild, BuildPoints))
    \/ Free(AddMove(MaxBuild, BuildPoints))
    \/ Free(AddColorChange(MaxBuild))
    \/ Free(AddBacktack(MaxBuild))
    \/ Free(AddPatternEnd(MaxBuild))
    \/ Free(AddFullEndingSequence(MaxBuild))

InitBuild == Fresh /\ file = <<1, 0, 138, 5, 97, 7, 20, 133>>

SpecBuild == InitBuild /\ [][NextBuild]_vars

\* SpecParse: decode of arbitrary buffers, and re-encode of what was decoded.
OneRecordFiles ==
    {<<op, 0, 5, 133>> : op \in Byte}
        \cup {<<97, 0, d, 0>> : d \in Byte}
        \cup {<<97, 0, 0, d>> : d \in Byte}

Records ==
    { <<97, 0, 10, 0>>, <<31, 0, 0, 0>>, <<97, 7, 138, 133>>,
      <<3, 0, 128, 127>>, <<5, 0, 255, 5>>, <<2, 9, 0, 128>> }

RECURSIVE RecordFiles(_)
RecordFiles(n) ==
    IF n = 0 THEN {<<>>}
    ELSE LET shorter == RecordFiles(n - 1)
         IN  shorter \cup {f \o r : f \in {g \in shorter : Len(g) = 4 * (n - 1)}, r \in Records}

\* a trailing fragment of fewer than 4 bytes
Fragments == {<<>>, <<97>>, <<31, 0>>, <<97, 0, 10>>}

ParseInputs ==
    OneRecordFiles \cup {f \o t : f \in RecordFiles(MaxRecs), t \in Fragments}

InitParse == Fresh /\ file \in ParseInputs

NextParse ==
    \/ Free(ParseFile)
    \/ Free(SaveToFile)

SpecParse == InitParse /\ [][NextParse]_vars

\* SpecB: the Format B parser decoding a pattern file.
MaxLenB == 6        \* SpecB: length of the buffers over BAlpha

\* a 5-byte opcode, a 4-byte coordinate opcode, the function opcode, an
\* unknown byte, and the speed opcode (2 is also a function code's low byte)
BAlpha == {3, 97, 31, 0, 2}

BSeqs == UNION {[1..n -> BAlpha] : n \in 0..MaxLenB}

\* every opcode byte, followed by 0 to 4 bytes
OneOpcodeB ==
    UNION {{<<op>>, <<op, 7, 1>>, <<op, 7, 1, 2>>, <<op, 7, 1, 2, 3>>} : op \in Byte}

\* every low byte of a function code, with high byte 0 and 1
FunctionFiles == {<<31, lo, hi, 9>> : lo \in Byte, hi \in {0, 1}}

\* coordinate records with the extreme values of their fields
WordBytes == {0, 1, 255}

WordFiles ==
    {<<3, a, b, c, d>> : a \in WordBytes, b \in WordBytes, c \in WordBytes, d \in WordBytes}
        \cup {<<op, a, b, c>> : op \in {97, 225}, a \in WordBytes, b \in WordBytes, c \in WordBytes}

\* one complete record of each known opcode
RecordsB ==
    { <<3, 44, 1, 200, 0>>, <<97, 200, 16, 2>>, <<225, 9, 255, 0>>, <<130, 1, 2, 3>>,
      <<131, 4, 5, 6>>, <<2, 31, 0, 97>>, <<31, 49, 0, 3>>, <<1, 0, 0, 0>> }

RECURSIVE RecordFilesB(_)
RecordFilesB(n) ==
    IF n = 0 THEN {<<>>}
    ELSE {f \o r : f \in RecordFilesB(n - 1), r \in RecordsB \cup {<<>>}}

BInputs == BSeqs \cup OneOpcodeB \cup FunctionFiles \cup WordFiles \cup RecordFilesB(MaxRecs)

\* An operation of the Format B parser object.
FreeB(A) == A /\ UNCHANGED <<vars_a, n_ops>>

InitB == Fresh /\ file \in BInputs

NextB ==
    \/ FreeB(ParseFileB)
    \/ FreeB(ParseStepB)
    \/ FreeB(GetBoundingBox)

SpecB == InitB /\ [][NextB]_vars

\* SpecBLive: the same, the while loop of _parse_binary_data keeps running:
\* an iteration that can be taken is eventually taken.
SpecBLive == SpecB /\ WF_vars(FreeB(ParseStepB))

\* SpecDelta: a new pattern's first stitches, at every delta the encoder can
\* be handed within and just beyond its range, saved.
MaxDeltaCmds == 1   \* SpecDelta: builder calls keep the list within this length

DeltaPoints == {<<v, -v>> : v \in -130..130} \cup {<<0, 127>>, <<-127, 0>>, <<5, 5>>}

NextDelta ==
    \/ Free(AddStitch(MaxDeltaCmds, DeltaPoints))
    \/ Free(SaveToFile)

InitDelta == Fresh /\ file = <<>>

SpecDelta == InitDelta /\ [][NextDelta]_vars

\* SpecCodec: one parser building a short list of any command types, with
\* steps within and beyond the delta range, and saving it at any time.
MaxCodec == 2       \* SpecCodec: builder calls keep the list within this length

CodecPoints == {<<0, 0>>, <<127, -127>>, <<128, -5>>, <<-300, 130>>, <<10, -7>>}

NextCodec ==
    \/ Free(AddStitch(MaxCodec, CodecPoints))
    \/ Free(AddMove(MaxCodec, CodecPoints))
    \/ Free(AddColorChange(MaxCodec))
    \/ Free(AddBacktack(MaxCodec))
    \/ Free(AddPatternEnd(MaxCodec))
    \/ Free(SaveToFile)

InitCodec == Fresh /\ file = <<>>

SpecCodec == InitCodec /\ [][NextCodec]_vars

\* SpecQr: QR codes generated into a new pattern (create_new_pattern, then
\* generate_qr_code, as test_real_qr.py does for each of its texts).
MaxDark == 1        \* SpecQr: dark modules of a matrix whose stitching is followed

\* modules of the top-left finder pattern, dark in every QR matrix
DarkModules == {<<4, 4>>, <<4, 5>>, <<10, 4>>}

DarkSets == {d \in SUBSET DarkModules : d # {} /\ Cardinality(d) <= MaxDark}

QrArgs(n, cx, cy, ms, sp, ec, av, d) ==
    [need |-> n, center_x |-> cx, center_y |-> cy, module_size |-> ms,
     stitch_spacing |-> sp, error_correction |-> ec, available |-> av, dark |-> d]

\* texts of every need, module sizes and centers, at the default level and spacing
QrSizes ==
    {QrArgs(n, c[1], c[2], ms, 10, "M", TRUE, {<<4, 4>>}) :
         n \in {1, 2, 11, 41},
         c \in {<<0, 0>>, <<3, 0>>, <<0, -4>>, <<18, 0>>, <<0, 36>>},
         ms \in {0, 1, 2, 3, 5, 6, 8, 9}}

\* the levels and spacings, for codes that are stitched
QrLevels ==
    {QrArgs(n, 0, 0, ms, sp, ec, TRUE, d) :
         n \in {1, 11}, ms \in {1, 3}, sp \in {8, 10},
         ec \in {"L", "M", "q", "H", "X"}, d \in DarkSets}

QrInputs == QrSizes \cup QrLevels \cup {QrArgs(1, 0, 0, 8, 10, "M", FALSE, {<<4, 4>>})}

NextQr ==
    \/ Free(CreateNewPattern)
    \/ Free(commands = <<>> /\ GenerateQrCode(6 * MaxDark, QrInputs))

InitQr == Fresh /\ file = <<>>

SpecQr == InitQr /\ [][NextQr]_vars

\* SpecStats: statistics of lists made by the builder.
MaxStats == 3       \* SpecStats: builder calls keep the list within this length

StatsPoints == {<<0, 0>>, <<3, 4>>, <<6, 8>>, <<0, 5>>}

NextStats ==
    \/ Free(CreateNewPattern)
    \/ Free(AddStitch(MaxStats, StatsPoints))
    \/ Free(AddMove(MaxStats, StatsPoints))
    \/ Free(AddColorChange(MaxStats))
    \/ Free(AddBacktack(MaxStats))
    \/ Free(AddPatternEnd(MaxStats))
    \/ Free(GetPatternStats)

InitStats == Fresh /\ file = <<>>

SpecStats == InitStats /\ [][NextStats]_vars

\* SpecLines: lines and rectangles stitched on a new pattern or after what a
\* short earlier call left.
MaxLines == 2       \* SpecLines: a call is made on a list shorter than this

\* the length of the list a call may leave
LineCap == 20 * MaxLines

LineEnds ==
    {<<0, 0>>, <<60, 0>>, <<40, 40>>, <<-7, 5>>, <<-47, 35>>, <<30, -40>>, <<5, 0>>,
     <<0, -64>>, <<-19, -1>>, <<110, 0>>}

LineInputs ==
    {LineArgs(s[1], s[2], e[1], e[2], sp, skip) :
         s \in {<<0, 0>>, <<-7, 5>>}, e \in LineEnds, sp \in {8, 10, 20}, skip \in BOOLEAN}

RectInputs ==
    {RectArgs(c[1], c[2], w, h, sp) :
         c \in {<<0, 0>>, <<-30, 11>>}, w \in {0, 4, 9, 40}, h \in {0, 5, 40}, sp \in {8, 20}}

NextLines ==
    \/ Free(CreateNewPattern)
    \/ Free(Len(commands) < MaxLines /\ AddStitchLine(LineCap, LineInputs))
    \/ Free(Len(commands) < MaxLines /\ AddStitchLineSegment(LineCap, LineInputs))
    \/ Free(Len(commands) < MaxLines /\ AddRectangleStitches(LineCap, RectInputs))

InitLines == Fresh /\ file = <<>>

SpecLines == InitLines /\ [][NextLines]_vars

\* SpecTack: backtacks after seams of a few stitches.
MaxTack == 3        \* SpecTack: add_backtack is called on a list within this length

TackPoints == {<<0, 0>>, <<2, 2>>, <<-6, 3>>, <<30, -40>>}

\* length arguments of add_backtack, up to the default 5 of test_backtack
TackLengths == 0..(MaxTack + 2)

AddBacktackOf(lengths, all_steps) ==
    \E length \in lengths, steps \in all_steps :
        Build(Len(commands) + length, add_backtack(commands, length, steps),
              Op("add_backtack", length, steps))

NextTack ==
    \/ Free(CreateNewPattern)
    \/ Free(AddStitch(MaxTack, TackPoints))
    \/ Free(AddMove(MaxTack, {<<0, 0>>, <<7, 7>>}))
    \/ Free(AddColorChange(MaxTack))
    \/ Free(Len(commands) <= MaxTack /\ AddBacktackOf(TackLengths, {1, 2, 3}))

InitTack == Fresh /\ file = <<>>

SpecTack == InitTack /\ [][NextTack]_vars

\* SpecAppend: every builder operation, on a new pattern and on a decoded list.
MaxAppend == 4      \* SpecAppend: a builder is called on a list shorter than this

Shorter(A) == Len(commands) < MaxAppend /\ A

AppendLines ==
    {LineArgs(0, 0, 40, 40, 20, TRUE), LineArgs(-7, 5, -7, 5, 20, FALSE),
     LineArgs(-7, 5, -7, 5, 20, TRUE)}

NextAppend ==
    \/ Free(ParseFile)
    \/ Free(CreateNewPattern)
    \/ Free(Shorter(AddStitch(LineCap, {<<0, 0>>, <<10, -7>>})))
    \/ Free(Shorter(AddMove(LineCap, {<<3, 4>>})))
    \/ Free(Shorter(AddColorChange(LineCap)))
    \/ Free(Shorter(AddBacktackOf({0, 2}, {3})))
    \/ Free(Shorter(AddPatternEnd(LineCap)))
    \/ Free(Shorter(\E n \in {1} :
                Build(LineCap, add_full_ending_sequence(commands, n),
                      Op("add_full_ending_sequence", n, 0))))
    \/ Free(Shorter(AddStitchLine(LineCap, AppendLines)))
    \/ Free(Shorter(AddStitchLineSegment(LineCap, AppendLines)))
    \/ Free(Shorter(AddRectangleStitches(LineCap, {RectArgs(0, 0, 4, 40, 20)})))

InitAppend == Fresh /\ file = <<97, 7, 20, 133>>

SpecAppend == InitAppend /\ [][NextAppend]_vars

(***************************************************************************)
(* Properties                                                              *)
(***************************************************************************)
\* Number of complete 4-byte records of a buffer.
NumRecords(b) == Len(b) \div 4

\* Opcode of the k-th record (k from 1) of a buffer.
OpcodeAt(b, k) == b[4 * (k - 1) + 1]

\* Records of b that carry opcode 0x1F.
Terminators(b) == {k \in 1..NumRecords(b) : OpcodeAt(b, k) = 31}

\* Number of records up to and including the first 0x1F record; all records
\* when there is none.
RecordsRead(b) == IF Terminators(b) = {} THEN NumRecords(b) ELSE SetMin(Terminators(b))

\* The command list is exactly what parse_file produced from src.
Undisturbed == Len(commands) > 0 /\ commands = parse_file(src).commands

\* C1 as stated: parse_file then save_to_file, with no x/y modified, writes the
\* bytes of the buffer up to and including the first PatternEnd record, or the
\* whole buffer (up to end-of-data) when it holds no PatternEnd record.
C1_RoundTripToEndOfData ==
    (last_op.name = "save_to_file" /\ Undisturbed) =>
        file = IF Terminators(src) = {}
               THEN src
               ELSE SubSeq(src, 1, 4 * SetMin(Terminators(src)))

\* C1 amended: parse_file then save_to_file, with no x/y modified, writes the
\* bytes of the buffer up to and including the first PatternEnd record, or up to
\* the end of its last complete 4-byte record when it holds no PatternEnd record
\* (neither the bytes after the terminator nor a trailing fragment of fewer
\* than 4 bytes are reproduced).
C1_RoundTrip ==
    (last_op.name = "save_to_file" /\ Undisturbed) =>
        file = SubSeq(src, 1, 4 * RecordsRead(src))

\* C1 witness: a saved decode of a buffer with a terminator and bytes after it.
C1_Witness ==
    /\ last_op.name = "save_to_file"
    /\ Undisturbed
    /\ Terminators(src) # {}
    /\ Len(src) > Len(file)
    /\ Len(file) = 8
    /\ file[2] = 7

\* C6: parse_file of any buffer yields one command per record up to the first
\* 0x1F record (none after it), then exactly one End sentinel without raw bytes
\* at (0,0); a PatternEnd can only be the entry just before End; a trailing
\* fragment yields nothing; 61 00 0a 00 1f 00 00 00 decodes to
\* [Stitch@(10,0), PatternEnd@(10,0), End].
C6_DecodeTerminationShape ==
    last_op.name = "parse_file" =>
        LET n == Len(commands)
        IN  /\ n = RecordsRead(src) + 1
            /\ commands[n] = [command_type |-> "END", x |-> 0, y |-> 0, raw_bytes |-> <<>>]
            /\ \A i \in 1..(n - 1) :
                   /\ commands[i].command_type # "END"
                   /\ commands[i].raw_bytes = SubSeq(src, 4 * i - 3, 4 * i)
                   /\ (commands[i].command_type = "PATTERN_END" => i = n - 1)
            /\ (src = <<97, 0, 10, 0, 31, 0, 0, 0>> =>
                   /\ n = 3
                   /\ <<commands[1].command_type, commands[1].x, commands[1].y>> = <<"STITCH", 10, 0>>
                   /\ <<commands[2].command_type, commands[2].x, commands[2].y>> = <<"PATTERN_END", 10, 0>>)

\* C6 witness: a decoded buffer with a record after its terminator and a trailing fragment.
C6_Witness ==
    /\ last_op.name = "parse_file"
    /\ Len(src) = 11
    /\ OpcodeAt(src, 1) = 31
    /\ Len(commands) = 2
    /\ commands[1].command_type = "PATTERN_END"

\* The classification C7 states.
C7_Type(op) ==
    CASE op = 97 -> "STITCH"
      [] op = 31 -> "PATTERN_END"
      [] op = 3 -> "BACKTACK"
      [] op \notin {97, 31, 3} /\ op % 2 = 1 -> "MOVE"
      [] op \notin {97, 31, 3} /\ op % 2 = 0 -> "COLOR_CHANGE"

\* C7: every record read yields exactly one command, whose type is: 0x61 Stitch,
\* 0x1F PatternEnd, 0x03 Backtack, any other odd byte Move, any other even byte
\* ColorChange (all 256 opcodes are read as the first record of some buffer).
C7_ClassificationTotal ==
    last_op.name = "parse_file" =>
        /\ Len(commands) = RecordsRead(src) + 1
        /\ \A i \in 1..RecordsRead(src) :
               commands[i].command_type = C7_Type(OpcodeAt(src, i))

\* C7 witness: decoded records with opcode 0x03 and with an odd opcode that is no fixed value.
C7_Witness ==
    /\ last_op.name = "parse_file"
    /\ Len(commands) = 3
    /\ OpcodeAt(src, 1) = 3
    /\ commands[1].command_type = "BACKTACK"
    /\ OpcodeAt(src, 2) = 5
    /\ commands[2].command_type = "MOVE"

\* The delta decoding C8 states.
C8_Delta(b) == IF b > 128 THEN -(b - 128) ELSE b

\* C8: the first record of a buffer puts its command at (decoded X byte,
\* -(decoded Y byte)), a byte above 0x80 decoding to -(byte - 0x80) and a byte
\* in 0..0x80 to itself: 0x80 gives +128 and 0x8A gives -10.
C8_DeltaDecoding ==
    (last_op.name = "parse_file" /\ NumRecords(src) >= 1) =>
        /\ commands[1].x = C8_Delta(src[3])
        /\ commands[1].y = -C8_Delta(src[4])
        /\ (src[3] = 128 => commands[1].x = 128)
        /\ (src[3] = 138 => commands[1].x = -10)
        /\ (src[4] = 128 => commands[1].y = -128)
        /\ (src[4] = 138 => commands[1].y = 10)

\* C8 witness: decoded records with X byte 0x80 and with Y byte 0x8A.
C8_Witness ==
    /\ last_op.name = "parse_file"
    /\ NumRecords(src) = 1
    /\ \/ src[3] = 128 /\ commands[1].x = 128
       \/ src[4] = 138 /\ commands[1].y = 10

\* A list made by builder calls alone: no raw bytes, no End sentinel.
BuilderMade(cmds) ==
    \A i \in 1..Len(cmds) : cmds[i].raw_bytes = <<>> /\ cmds[i].command_type # "END"

\* Every command is within 127 units, on each axis, of the one before it (of
\* the origin for the first), and only the last command may be a PatternEnd.
StepsWithin127(cmds) ==
    \A i \in 1..Len(cmds) :
        LET px == IF i = 1 THEN 0 ELSE cmds[i - 1].x
            py == IF i = 1 THEN 0 ELSE cmds[i - 1].y
        IN  /\ Abs(cmds[i].x - px) <= 127
            /\ Abs(cmds[i].y - py) <= 127
            /\ (cmds[i].command_type = "PATTERN_END" => i = Len(cmds))

\* The (x, y) of each command of a list, in order.
Coordinates(cmds) == [i \in 1..Len(cmds) |-> <<cmds[i].x, cmds[i].y>>]

\* A decoded list without its End sentinel.
WithoutEnd(cmds) == SubSeq(cmds, 1, Len(cmds) - 1)

\* C2: after save_to_file of a builder-made list whose consecutive commands
\* are within 127 units of each other, parse_file of the written file yields
\* the same absolute coordinates in the same order.
C2_DeltaBoundFidelity ==
    (last_op.name = "save_to_file" /\ BuilderMade(commands) /\ StepsWithin127(commands)) =>
        Coordinates(WithoutEnd(parse_file(file).commands)) = Coordinates(commands)

\* C3: a center_pattern call that changes x or y of a command carrying raw
\* bytes clears that command's raw bytes.
C3_RawBytesInvalidated ==
    [][last_op'.name = "center_pattern" =>
          \A i \in 1..Len(commands) :
              (/\ commands[i].raw_bytes # <<>>
               /\ <<commands'[i].x, commands'[i].y>> # <<commands[i].x, commands[i].y>>)
                  => commands'[i].raw_bytes = <<>>]_vars

\* The list is an unmodified decode of src (without PatternEnd) followed by one
\* appended Stitch within 127 units of the last decoded position.
DecodedThenOneStitch ==
    LET n == Len(commands)
    IN  /\ n >= 3
        /\ SubSeq(commands, 1, n - 1) = parse_file(src).commands
        /\ Terminators(src) = {}
        /\ commands[n].command_type = "STITCH"
        /\ commands[n].raw_bytes = <<>>
        /\ Abs(commands[n].x - commands[n - 2].x) <= 127
        /\ Abs(commands[n].y - commands[n - 2].y) <= 127

\* C4: parse, append one stitch within 127 units of the last decoded position,
\* save from a last-written position of (0,0), parse again: the appended
\* stitch comes back at its absolute coordinates.
C4_RawBytesAdvanceLastWritten ==
    (last_op.name = "save_pattern" /\ DecodedThenOneStitch) =>
        LET back == WithoutEnd(parse_file(file).commands)
            n == Len(commands)
        IN  /\ Len(back) = n - 1
            /\ <<back[n - 1].x, back[n - 1].y>> = <<commands[n].x, commands[n].y>>

\* C5: the bytes save_to_file writes are those a fresh parser (last-written
\* position (0,0)) writes for the same command list.
C5_SaveStartsAtOrigin ==
    last_op.name = "save_to_file" => file = save_to_file(commands, 0, 0).bytes

\* C9: add_full_ending_sequence(n) leaves the existing commands as they are and
\* appends one ColorChange, then n Backtack, then one PatternEnd.
C9_EndingSequenceShape ==
    [][last_op'.name = "add_full_ending_sequence" =>
          LET n == last_op'.a
              k == Len(commands)
          IN  /\ Len(commands') = k + n + 2
              /\ SubSeq(commands', 1, k) = commands
              /\ commands'[k + 1].command_type = "COLOR_CHANGE"
              /\ \A i \in 1..n : commands'[k + 1 + i].command_type = "BACKTACK"
              /\ commands'[k + n + 2].command_type = "PATTERN_END"]_vars

\* C9 witness: add_full_ending_sequence(1) called after two stitches.
C9_Witness ==
    /\ last_op = Op("add_full_ending_sequence", 1, 0)
    /\ Len(commands) = 5
    /\ commands[1].command_type = "STITCH"
    /\ commands[2].command_type = "STITCH"
    /\ commands[4].command_type = "BACKTACK"

\* Number of Stitch commands of a list.
NumStitches(cmds) == Cardinality({i \in 1..Len(cmds) : cmds[i].command_type = "STITCH"})

\* C10: add_backtack(length, steps) with fewer than 2 Stitch commands among
\* the most recent `steps` ones appends exactly `length` Backtack commands, the
\* i-th (from 0) at (lastX + i mod 2, lastY), (lastX, lastY) being the position
\* of the list's last command, the origin for an empty list.
C10_BacktackFallback ==
    [][(/\ last_op'.name = "add_backtack"
        /\ Min2(last_op'.b, NumStitches(commands)) < 2) =>
          LET k == Len(commands)
              lastX == IF k = 0 THEN 0 ELSE commands[k].x
              lastY == IF k = 0 THEN 0 ELSE commands[k].y
          IN  commands' = commands \o
                  [i \in 1..last_op'.a |->
                      [command_type |-> "BACKTACK", x |-> lastX + ((i - 1) % 2),
                       y |-> lastY, raw_bytes |-> <<>>]]]_vars

\* C10 witness: add_backtack(5, 3) on an empty pattern.
C10_Witness ==
    /\ last_op = Op("add_backtack", 5, 3)
    /\ Len(commands) = 5
    /\ \A i \in 1..5 : commands[i].command_type = "BACKTACK"
    /\ commands[2].x = 1
    /\ commands[5].x = 0

\* C11: the box get_pattern_bounds returns is (minX, minY, maxX, maxY) with
\* every Stitch, Move and Backtack command of the list inside it, and it is
\* (0,0,0,0) for a list that is empty or has no such command.
C11_BoundingBox ==
    returned.op = "get_pattern_bounds" =>
        LET box == returned.value
            idx == {i \in 1..Len(commands) : commands[i].command_type \in Motion}
        IN  /\ \A i \in idx :
                   /\ box[1] <= commands[i].x /\ commands[i].x <= box[3]
                   /\ box[2] <= commands[i].y /\ commands[i].y <= box[4]
            /\ (idx = {} => box = <<0, 0, 0, 0>>)

\* The Format B parser has returned from parse_file.
ParsedB == last_op.name = "parse_file_b" /\ cursor_b >= Len(data)

\* The eight opcodes of the Format B record table and their record lengths.
KnownB == {3, 97, 225, 130, 131, 2, 31, 1}

RecLenB(op) == IF op = 3 THEN 5 ELSE IF op \in KnownB THEN 4 ELSE 1

\* The cursor of a decoder that walks the record table from cursor i and stops
\* at the first record that would read past the end of the buffer.
RECURSIVE StopCursor(_, _)
StopCursor(buf, i) ==
    IF i >= Len(buf) \/ i + RecLenB(buf[i + 1]) > Len(buf) THEN i
    ELSE StopCursor(buf, i + RecLenB(buf[i + 1]))

\* The raw data of a Format B command list, concatenated in order.
RECURSIVE RawDataB(_)
RawDataB(cmds) == IF cmds = <<>> THEN <<>> ELSE Head(cmds).raw_data \o RawDataB(Tail(cmds))

\* C13: when the Format B decoder meets a known opcode whose record would read
\* past the end of the buffer, it stops: the commands it returns are those of
\* the bytes before that record, and none (Unknown included) comes from the
\* bytes of that record or after it.
C13_OverrunStops ==
    (ParsedB /\ StopCursor(data, 0) < Len(data)) =>
        RawDataB(commands_b) = Slice(data, 0, StopCursor(data, 0))

\* The decoder is at a record boundary: its loop is about to classify data[cursor_b].
AtBoundary == cursor_b < Len(data)

\* The byte under the cursor, and the k-th byte after it.
ByteAt(k) == data[cursor_b + 1 + k]

\* The commands the step appended.
AppendedB == SubSeq(commands_b', Len(commands_b) + 1, Len(commands_b'))

\* C14: at every record boundary whose byte is none of the eight known
\* opcodes, the decoder appends exactly one Unknown command whose raw data is
\* that single byte, leaves the earlier commands alone, and moves the cursor by
\* exactly one byte, where the next classification takes place.
C14_UnknownResync ==
    [][(AtBoundary /\ ByteAt(0) \notin KnownB) =>
          /\ Len(commands_b') = Len(commands_b) + 1
          /\ SubSeq(commands_b', 1, Len(commands_b)) = commands_b
          /\ AppendedB[1].command_type = "UNKNOWN"
          /\ AppendedB[1].raw_data = <<ByteAt(0)>>
          /\ cursor_b' = cursor_b + 1
          /\ data' = data]_vars

\* C14 witness: an unknown byte gave an Unknown command and the next byte was
\* classified as the Point record it opens.
C14_Witness ==
    /\ ParsedB
    /\ Len(commands_b) = 2
    /\ commands_b[1].command_type = "UNKNOWN"
    /\ commands_b[1].raw_data = <<0>>
    /\ commands_b[2].command_type = "POINT"
    /\ commands_b[2].raw_data = SubSeq(data, 2, 5)

\* The command types C19 names for the known opcodes.
C19_Type(op) ==
    CASE op = 3 -> "LINEAR_MOVE"
      [] op = 97 -> "POINT"
      [] op = 225 -> "CIRCULAR"
      [] op = 130 -> "ARC"
      [] op = 131 -> "CURVE"
      [] op = 2 -> "SPEED"
      [] op = 31 -> "FUNCTION"
      [] op = 1 -> "SEPARATOR"

\* C19: a known opcode whose record fits in the buffer consumes 5 bytes (0x03)
\* or 4 bytes (the others) and appends one command of its type whose raw data
\* is the bytes consumed; 0x03 has x = u16-le at offset 1 and y = u16-le at
\* offset 3; 0x61 and 0xE1 have x = u8 at offset 1 and y = u16-le at offset 2;
\* 0x82, 0x83, 0x02, 0x1F, 0x01 have the 3 following bytes as parameters;
\* coordinates are the record's own values, never negative.
C19_RecordShapes ==
    [][(/\ AtBoundary
        /\ ByteAt(0) \in KnownB
        /\ cursor_b + RecLenB(ByteAt(0)) <= Len(data)) =>
          LET op == ByteAt(0)
              cmd == AppendedB[1]
          IN  /\ cursor_b' = cursor_b + (IF op = 3 THEN 5 ELSE 4)
              /\ Len(commands_b') = Len(commands_b) + 1
              /\ SubSeq(commands_b', 1, Len(commands_b)) = commands_b
              /\ cmd.command_type = C19_Type(op)
              /\ cmd.raw_data = SubSeq(data, cursor_b + 1, cursor_b')
              /\ (op = 3 =>
                     /\ cmd.x = ByteAt(1) + 256 * ByteAt(2)
                     /\ cmd.y = ByteAt(3) + 256 * ByteAt(4))
              /\ (op \in {97, 225} =>
                     /\ cmd.x = ByteAt(1)
                     /\ cmd.y = ByteAt(2) + 256 * ByteAt(3))
              /\ (op \in {130, 131, 2, 31, 1} =>
                     cmd.parameters = <<ByteAt(1), ByteAt(2), ByteAt(3)>>)
              /\ cmd.x >= 0
              /\ cmd.y >= 0]_vars

\* C19 witness: a LinearMove at (300, 200) followed by a Point at (200, 528),
\* whose coordinates are not added to the LinearMove's.
C19_Witness ==
    /\ ParsedB
    /\ data = <<3, 44, 1, 200, 0, 97, 200, 16, 2>>
    /\ Len(commands_b) = 2
    /\ <<commands_b[1].command_type, commands_b[1].x, commands_b[1].y>> = <<"LINEAR_MOVE", 300, 200>>
    /\ <<commands_b[2].command_type, commands_b[2].x, commands_b[2].y>> = <<"POINT", 200, 528>>

\* The function code table C20 states; "NONE" is the unset code.
C20_Table(v) ==
    CASE v = 2 -> "THREAD_TRIMMING"
      [] v = 3 -> "FEED"
      [] v = 4 -> "HALT"
      [] v = 5 -> "REVERSE_ROTATION"
      [] v = 6 -> "SECOND_HOME_POSITION"
      [] v = 7 -> "BASTING"
      [] v = 49 -> "END_DATA"
      [] v \notin {2, 3, 4, 5, 6, 7, 49} -> "NONE"

\* C20: every Function (0x1F) record that fits in the buffer is emitted with
\* its three raw parameters and with the function code the table gives for the
\* little-endian 16-bit value of the first two (unset when the table has no
\* entry); a command of any other type carries no function code.
C20_FunctionCode ==
    [][AtBoundary =>
          /\ (ByteAt(0) = 31 /\ cursor_b + 4 <= Len(data)) =>
                 /\ Len(AppendedB) = 1
                 /\ AppendedB[1].command_type = "FUNCTION"
                 /\ AppendedB[1].parameters = <<ByteAt(1), ByteAt(2), ByteAt(3)>>
                 /\ AppendedB[1].function_code = C20_Table(ByteAt(1) + 256 * ByteAt(2))
          /\ \A k \in 1..Len(AppendedB) :
                 AppendedB[k].command_type # "FUNCTION" => AppendedB[k].function_code = "NONE"]_vars

\* C20 witness: a decoded Function record 1f 03 00 09 carrying Feed.
C20_Witness ==
    /\ ParsedB
    /\ data = <<31, 3, 0, 9>>
    /\ Len(commands_b) = 1
    /\ commands_b[1].command_type = "FUNCTION"
    /\ commands_b[1].function_code = "FEED"
    /\ commands_b[1].parameters = <<3, 0, 9>>

\* Sum of the decoded deltas (as C8 states them) of the bytes at offset `off`
\* of records 1..k of a buffer.
RECURSIVE DeltaSum(_, _, _)
DeltaSum(b, k, off) ==
    IF k = 0 THEN 0 ELSE DeltaSum(b, k - 1, off) + C8_Delta(b[4 * (k - 1) + off])

\* C15: after any parse_file, first or repeated on the same parser, every
\* decoded command but the End sentinel is at (sum of the decoded X deltas,
\* minus the sum of the decoded Y deltas) of the records from the first up to
\* and including its own: the running position starts at (0,0) on every call.
C15_RunningSum ==
    last_op.name = "parse_file" =>
        \A i \in 1..(Len(commands) - 1) :
            /\ commands[i].x = DeltaSum(src, i, 3)
            /\ commands[i].y = -DeltaSum(src, i, 4)

\* C15 witness: two records decoded, the second (a ColorChange) back at x = 0
\* after deltas +10 and -10, at y = 5 after Y bytes 0x00 and 0x85.
C15_Witness ==
    /\ last_op.name = "parse_file"
    /\ src = <<97, 0, 10, 0, 97, 7, 138, 133>>
    /\ Len(commands) = 3
    /\ <<commands[1].x, commands[1].y>> = <<10, 0>>
    /\ <<commands[2].x, commands[2].y>> = <<0, 5>>
    /\ <<current_x, current_y>> = <<0, 5>>

\* The sign-bit rule of the encoder as C16 states it.
C16_SignBit(d) == IF d >= 0 THEN d ELSE 128 + (-d)

\* The save wrote the list's first command from its coordinates (it holds no raw bytes).
FirstSynthesized ==
    /\ last_op'.name = "save_to_file"
    /\ Len(commands) >= 1
    /\ commands[1].raw_bytes = <<>>
    /\ commands[1].command_type # "END"

\* C16: for every delta v in [-127, 127] the encoder is handed on X (on Y),
\* decoding the X byte (the Y byte, with the Y negation) it writes gives v; the
\* Y byte is the sign-bit rule applied to the negated delta.
C16_DeltaInverse ==
    [][FirstSynthesized =>
          LET vx == commands[1].x - last_save_x
              vy == commands[1].y - last_save_y
          IN  /\ vx \in -127..127 => decode_delta(file'[3]) = vx
              /\ vy \in -127..127 =>
                     /\ decode_y(file'[4]) = vy
                     /\ file'[4] = C16_SignBit(-vy)]_vars

\* C16 witness: a stitch at (-127, 127) saved from the origin as 61 00 ff ff.
C16_Witness ==
    /\ last_op.name = "save_to_file"
    /\ Len(commands) = 1
    /\ <<commands[1].x, commands[1].y>> = <<-127, 127>>
    /\ file = <<97, 0, 255, 255>>

\* The opcode C17 names for each command type.
C17_Opcode(t) ==
    CASE t = "STITCH" -> 97
      [] t = "MOVE" -> 1
      [] t = "COLOR_CHANGE" -> 2
      [] t = "BACKTACK" -> 3
      [] t = "PATTERN_END" -> 31

\* C17: save_to_file writes a list of synthesized commands as one 4-byte record
\* [opcode, 0x00, xByte, yByte] per command, the opcode being 0x61 for Stitch,
\* 0x01 for Move, 0x02 for ColorChange, 0x03 for Backtack and 0x1F for
\* PatternEnd, and the Format A classifier gives each opcode its command type back.
C17_TypeSurvives ==
    (last_op.name = "save_to_file" /\ BuilderMade(commands)) =>
        /\ Len(file) = 4 * Len(commands)
        /\ \A i \in 1..Len(commands) :
               /\ file[4 * i - 3] = C17_Opcode(commands[i].command_type)
               /\ file[4 * i - 2] = 0
               /\ file[4 * i - 1] \in Byte
               /\ file[4 * i] \in Byte
               /\ classify(file[4 * i - 3]) = commands[i].command_type

\* C17 witness: a saved list of a Backtack followed by a PatternEnd.
C17_Witness ==
    /\ last_op.name = "save_to_file"
    /\ Len(commands) = 2
    /\ commands[1].command_type = "BACKTACK"
    /\ commands[2].command_type = "PATTERN_END"
    /\ <<file[1], file[5]>> = <<3, 31>>

\* A delta cut to the range C18 states.
C18_Clamp(d) == IF d > 127 THEN 127 ELSE IF d < -127 THEN -127 ELSE d

\* C18: on every save of a list of synthesized commands, with the true delta of
\* a command taken from the position of the command before it (from the
\* encoder's last-written position for the first command): a true delta
\* beyond 127 in magnitude is written as a byte that decodes to +127 or -127
\* with its sign, every written delta decodes into [-127, 127], a true delta
\* within the range is written as itself also right after a clamped step (the
\* last-written position is the intended position, not the reconstruction),
\* the save leaves the last-written position at the last command's intended
\* coordinates, and each re-parsed position is off the intended one by what
\* the clamps up to there cut off (counted from the encoder's starting
\* position, which is (0,0) on a parser that has not saved before).
C18_OversizedDeltaClamped ==
    [][(last_op'.name = "save_to_file" /\ commands # <<>> /\ BuilderMade(commands)) =>
          LET n == Len(commands)
              prev_x(i) == IF i = 1 THEN last_save_x ELSE commands[i - 1].x
              prev_y(i) == IF i = 1 THEN last_save_y ELSE commands[i - 1].y
              true_x(i) == commands[i].x - prev_x(i)
              true_y(i) == commands[i].y - prev_y(i)
              emitted_x(i) == decode_delta(file'[4 * i - 1])
              emitted_y(i) == decode_y(file'[4 * i])
              back == WithoutEnd(parse_file(file').commands)
              off_x(i) == IF i = 0 THEN -last_save_x ELSE back[i].x - commands[i].x
              off_y(i) == IF i = 0 THEN -last_save_y ELSE back[i].y - commands[i].y
          IN  /\ \A i \in 1..n :
                     /\ emitted_x(i) = C18_Clamp(true_x(i))
                     /\ emitted_y(i) = C18_Clamp(true_y(i))
                     /\ emitted_x(i) \in -127..127
                     /\ emitted_y(i) \in -127..127
              /\ <<last_save_x', last_save_y'>> = <<commands[n].x, commands[n].y>>
              /\ \A i \in 1..Len(back) :
                     /\ off_x(i) = off_x(i - 1) - (true_x(i) - C18_Clamp(true_x(i)))
                     /\ off_y(i) = off_y(i - 1) - (true_y(i) - C18_Clamp(true_y(i)))]_vars

\* C18 witness: Stitch (128, -5) then Stitch (10, -7) saved from the origin:
\* the first X delta is written as +127, the second as the true -118, and the
\* file re-parses to (127, -5), (9, -7).
C18_Witness ==
    /\ last_op.name = "save_to_file"
    /\ Len(commands) = 2
    /\ <<commands[1].x, commands[1].y>> = <<128, -5>>
    /\ <<commands[2].x, commands[2].y>> = <<10, -7>>
    /\ file = <<97, 0, 127, 5, 97, 0, 246, 2>>
    /\ <<last_save_x, last_save_y>> = <<10, -7>>
    /\ parse_file(file).commands[2].x = 9

\* A square of side total_size centered at (center_x, center_y) reaches past
\* the +/-100 half-extent on some side (doubled, to stay in the integers).
BeyondArea(center_x, center_y, total_size) ==
    \/ 2 * center_x + total_size > 200
    \/ 2 * center_x - total_size < -200
    \/ 2 * center_y + total_size > 200
    \/ 2 * center_y - total_size < -200

\* The last call was generate_qr_code.
QrCalled == last_op.name = "generate_qr_code" /\ returned.op = "generate_qr_code"

\* C12 as stated: a QR footprint (matrix size x module size, centered at the
\* given center) that extends beyond the +/-100 half-extent on any side is
\* answered with success = false and capacity 0, so a successful call has a
\* footprint inside the area; every unsuccessful answer, the one for a grid
\* over the module budget included, is (false, message, 0).
C12_QrRejection ==
    QrCalled =>
        /\ returned.value[1] = FALSE => returned.value[2] = 0
        /\ returned.info[1] = "too_large" => returned.value = <<FALSE, 0>>
        /\ returned.value[1] = TRUE =>
               ~BeyondArea(last_op.args.center_x, last_op.args.center_y,
                           returned.info[3] * last_op.args.module_size)

\* The last call was get_pattern_stats.
StatsCalled == last_op.name = "get_pattern_stats" /\ returned.op = "get_pattern_stats"

\* C21 as stated: get_pattern_stats walks the list from the previous point
\* (0,0); every coordinate-bearing command (Stitch, Move, Backtack) adds the
\* distance from the previous coordinate-bearing point unless that point is
\* exactly (0,0), and becomes the previous point; the other commands neither
\* contribute nor move the previous point; the stitch, move and color-change
\* counts are the numbers of commands of each type.
C21_PathLength ==
    StatsCalled => returned.value = stats_over(commands, Motion)

\* The commands a step appended to the list.
Appended == SubSeq(commands', Len(commands) + 1, Len(commands'))

\* The step kept the commands it found.
PrefixKept ==
    /\ Len(commands') >= Len(commands)
    /\ SubSeq(commands', 1, Len(commands)) = commands

\* p is the quotient n / d (d > 0) truncated toward zero.
IsTruncated(p, n, d) ==
    /\ Abs(p) * d <= Abs(n)
    /\ Abs(n) < (Abs(p) + 1) * d
    /\ p * n >= 0

\* floor(length / spacing) of a line whose squared length is d2
SpacingsIn(d2, spacing) ==
    CHOOSE k \in 0..LineCap :
        /\ (k * spacing) * (k * spacing) <= d2
        /\ d2 < ((k + 1) * spacing) * ((k + 1) * spacing)

\* cmd is the Stitch of index i among the count points of the line q.
LinePoint(cmd, q, i, count) ==
    /\ cmd.command_type = "STITCH"
    /\ cmd.raw_bytes = <<>>
    /\ IsTruncated(cmd.x, q.start_x * (count - 1) + i * (q.end_x - q.start_x), count - 1)
    /\ IsTruncated(cmd.y, q.start_y * (count - 1) + i * (q.end_y - q.start_y), count - 1)

\* C22: add_stitch_line on a line of non-zero length appends exactly
\* max(2, floor(length / spacing) + 1) Stitch commands, the first at start, the
\* last at end, the point of index i at start + (i / (count - 1)) * (end - start)
\* truncated toward zero; on a line of zero length it appends one Stitch at
\* start.
C22_StitchLine ==
    [][last_op'.name = "add_stitch_line" =>
        LET q == last_op'.args
            dx == q.end_x - q.start_x
            dy == q.end_y - q.start_y
            d2 == dx * dx + dy * dy
            count == Max2(2, SpacingsIn(d2, q.stitch_spacing) + 1)
        IN  /\ PrefixKept
            /\ d2 = 0 => Appended = <<Cmd("STITCH", q.start_x, q.start_y, <<>>)>>
            /\ d2 > 0 =>
                   /\ Len(Appended) = count
                   /\ <<Appended[1].x, Appended[1].y>> = <<q.start_x, q.start_y>>
                   /\ <<Appended[count].x, Appended[count].y>> = <<q.end_x, q.end_y>>
                   /\ \A i \in 0..(count - 1) : LinePoint(Appended[i + 1], q, i, count)]_vars

\* The stitches add_stitch_line appends for the edge from corner p to corner r.
EdgeStitches(p, r, stitch_spacing) ==
    add_stitch_line(<<>>, p[1], p[2], r[1], r[2], stitch_spacing)

\* No two commands in a row of a list are Stitches at the same position.
NoRepeatedStitch(cmds) ==
    \A k \in 1..(Len(cmds) - 1) :
        ~ /\ cmds[k].command_type = "STITCH"
          /\ cmds[k + 1] = cmds[k]

\* C23: add_rectangle_stitches appends one Move at the first corner (center
\* minus the half extents width // 2 and height // 2), then only Stitches: the
\* first edge as add_stitch_line generates it, beginning with a Stitch at the
\* first corner, then each of the other three edges (the closing edge from the
\* fourth corner to the first included) as add_stitch_line generates it but
\* without its point of index 0; no corner is stitched twice in a row and the
\* last Stitch is at the first corner.
C23_Rectangle ==
    [][last_op'.name = "add_rectangle_stitches" =>
        LET q == last_op'.args
            half_w == q.width \div 2
            half_h == q.height \div 2
            c1 == <<q.center_x - half_w, q.center_y - half_h>>
            c2 == <<q.center_x + half_w, q.center_y - half_h>>
            c3 == <<q.center_x + half_w, q.center_y + half_h>>
            c4 == <<q.center_x - half_w, q.center_y + half_h>>
            n == Len(Appended)
        IN  /\ PrefixKept
            /\ Appended = <<Cmd("MOVE", c1[1], c1[2], <<>>)>>
                              \o EdgeStitches(c1, c2, q.stitch_spacing)
                              \o Tail(EdgeStitches(c2, c3, q.stitch_spacing))
                              \o Tail(EdgeStitches(c3, c4, q.stitch_spacing))
                              \o Tail(EdgeStitches(c4, c1, q.stitch_spacing))
            /\ \A k \in 2..n : Appended[k].command_type = "STITCH"
            /\ <<Appended[2].x, Appended[2].y>> = c1
            /\ <<Appended[n].x, Appended[n].y>> = c1
            /\ NoRepeatedStitch(Appended)]_vars

\* A 40 x 40 rectangle around the origin at spacing 20: the Move, three
\* stitches of the first edge and two of each other edge.
C23_Witness ==
    /\ last_op.name = "add_rectangle_stitches"
    /\ last_op.args = RectArgs(0, 0, 40, 40, 20)
    /\ Len(commands) = 10
    /\ commands[1] = Cmd("MOVE", -20, -20, <<>>)
    /\ [k \in 2..10 |-> <<commands[k].x, commands[k].y>>] =
           [k \in 2..10 |->
               CASE k = 2 -> <<-20, -20>> [] k = 3 -> <<0, -20>> [] k = 4 -> <<20, -20>>
                 [] k = 5 -> <<20, 0>> [] k = 6 -> <<20, 20>> [] k = 7 -> <<0, 20>>
                 [] k = 8 -> <<-20, 20>> [] k = 9 -> <<-20, 0>> [] k = 10 -> <<-20, -20>>]

\* The (x, y) of the Stitch commands of a list, in order.
StitchesOf(cmds) ==
    LET st == SelectSeq(cmds, LAMBDA c : c.command_type = "STITCH")
    IN  [k \in 1..Len(st) |-> <<st[k].x, st[k].y>>]

\* floor(sqrt(d2)), for d2 = dx*dx + dy*dy
FloorLength(dx, dy) ==
    CHOOSE k \in 0..(Abs(dx) + Abs(dy)) :
        k * k <= dx * dx + dy * dy /\ dx * dx + dy * dy < (k + 1) * (k + 1)

\* floor(n / sqrt(d2)), for d2 > 0
FloorDivLength(n, d2) ==
    IF n >= 0
    THEN CHOOSE j \in 0..n : j * j * d2 <= n * n /\ n * n < (j + 1) * (j + 1) * d2
    ELSE CHOOSE j \in n..(-1) : j * j * d2 >= n * n /\ n * n > (j + 1) * (j + 1) * d2

\* n divided (integer division) by a stepSize that is the integer part of
\* |direction| clamped to [1, 10]
ByWholeStep(n, dx, dy) == n \div Min2(Max2(1, FloorLength(dx, dy)), 10)

\* n divided (integer division) by a stepSize that is |direction| itself
\* clamped to [1, 10]
ByLengthStep(n, dx, dy) ==
    LET d2 == dx * dx + dy * dy
    IN  IF d2 >= 100 THEN n \div 10
        ELSE IF d2 <= 1 THEN n
        ELSE FloorDivLength(n, d2)

\* The directional backtack of a step, the division by stepSize being Q: with
\* at least two Stitches in the list and steps >= 2, add_backtack(length,
\* steps) appends exactly `length` Backtack commands; start is the last Stitch,
\* prev the Stitch before it, direction = start - prev; the point of an even i
\* is start - direction * (i//2 + 1) / stepSize, that of an odd i is
\* start + direction * (i//2) / stepSize.
DirectionalBacktack(Q(_, _, _)) ==
    LET length == last_op'.a
        steps == last_op'.b
        st == StitchesOf(commands)
        start == st[Len(st)]
        prev == st[Len(st) - 1]
        dx == start[1] - prev[1]
        dy == start[2] - prev[2]
        back(i) == <<start[1] - Q(dx * ((i \div 2) + 1), dx, dy),
                     start[2] - Q(dy * ((i \div 2) + 1), dx, dy)>>
        forth(i) == <<start[1] + Q(dx * (i \div 2), dx, dy),
                      start[2] + Q(dy * (i \div 2), dx, dy)>>
    IN  (last_op'.name = "add_backtack" /\ Len(st) >= 2 /\ steps >= 2) =>
            /\ PrefixKept
            /\ Len(Appended) = length
            /\ \A k \in 1..length :
                   /\ Appended[k].command_type = "BACKTACK"
                   /\ <<Appended[k].x, Appended[k].y>> =
                          IF (k - 1) % 2 = 0 THEN back(k - 1) ELSE forth(k - 1)
            /\ length >= 2 => <<Appended[2].x, Appended[2].y>> = start

MostRecent(cmds, types) ==
    LET idx == {i \in 1..Len(cmds) : cmds[i].command_type \in types}
    IN  IF idx = {} THEN <<0, 0>>
        ELSE <<cmds[SetMax(idx)].x, cmds[SetMax(idx)].y>>

\* C25: add_pattern_end appends exactly one PatternEnd command without raw
\* bytes, at the position of the most recent Stitch, Move or Backtack command
\* of the list, or at (0,0) when the list has none; called right after an
\* add_backtack of length > 0 it sits at the last Backtack point.
C25_PatternEnd ==
    [][last_op'.name = "add_pattern_end" =>
        LET p == MostRecent(commands, {"STITCH", "MOVE", "BACKTACK"})
        IN  /\ PrefixKept
            /\ Appended = <<Cmd("PATTERN_END", p[1], p[2], <<>>)>>
            /\ (last_op.name = "add_backtack" /\ last_op.a > 0) =>
                   /\ commands[Len(commands)].command_type = "BACKTACK"
                   /\ p = <<commands[Len(commands)].x, commands[Len(commands)].y>>]_vars

\* A PatternEnd appended after a backtack whose last point is neither the
\* origin nor the last Stitch.
C25_Witness ==
    /\ last_op.name = "add_pattern_end"
    /\ Len(commands) >= 3
    /\ LET n == Len(commands)
       IN  /\ commands[n].command_type = "PATTERN_END"
           /\ commands[n - 1].command_type = "BACKTACK"
           /\ <<commands[n].x, commands[n].y>> = <<commands[n - 1].x, commands[n - 1].y>>
           /\ <<commands[n].x, commands[n].y>> # <<0, 0>>
           /\ <<commands[n].x, commands[n].y>> # MostRecent(commands, {"STITCH", "MOVE"})

\* C26: add_color_change appends exactly one ColorChange command at the
\* position of the most recent Stitch or Move command of the list (Backtack,
\* ColorChange, PatternEnd and End commands are passed over), or at (0,0) when
\* the list has no Stitch and no Move.
C26_ColorChange ==
    [][last_op'.name = "add_color_change" =>
        LET p == MostRecent(commands, {"STITCH", "MOVE"})
        IN  /\ PrefixKept
            /\ Appended = <<Cmd("COLOR_CHANGE", p[1], p[2], <<>>)>>]_vars

\* A ColorChange appended after a Backtack that lies elsewhere: it sits at the
\* last Stitch or Move, not at the Backtack.
C26_Witness ==
    /\ last_op.name = "add_color_change"
    /\ Len(commands) >= 3
    /\ LET n == Len(commands)
       IN  /\ commands[n].command_type = "COLOR_CHANGE"
           /\ commands[n - 1].command_type = "BACKTACK"
           /\ <<commands[n].x, commands[n].y>> # <<commands[n - 1].x, commands[n - 1].y>>
           /\ <<commands[n].x, commands[n].y>> # <<0, 0>>

\* The versions 1..10 that hold a text needing version `need` and whose grid
\* is within the budget of 180 // module_size modules.
FittingVersions(need, module_size) ==
    {v \in 1..10 : v >= need /\ modules_count(v) <= 180 \div module_size}

\* The call had the library, a module size of at least 1 and an encodable text.
QrEncodable ==
    /\ QrCalled
    /\ last_op.args.available
    /\ last_op.args.module_size >= 1
    /\ last_op.args.need <= 40

\* C27 as stated: for an encodable text generate_qr_code uses the largest of
\* the versions 1..10 that hold the text and fit the budget of
\* 180 // module_size modules, and it answers that the code is too large, as
\* (false, message, 0), only if the smallest version that holds the text
\* exceeds the budget.
C27_VersionSelection ==
    QrEncodable =>
        LET q == last_op.args
            fitting == FittingVersions(q.need, q.module_size)
        IN  /\ (returned.value[1] = TRUE /\ fitting # {}) =>
                   returned.info[2] = SetMax(fitting)
            /\ returned.info[1] = "too_large" =>
                   /\ returned.value = <<FALSE, 0>>
                   /\ modules_count(q.need) > 180 \div q.module_size

\* C28 as stated: for a QR code centered at the origin, a grid accepted by the
\* budget test (modules_count <= 180 // module_size) also passes the +/-100
\* half-extent test made on the matrix with its border: when some version that
\* holds the text fits the budget, the code is stitched and the call succeeds.
C28_ChecksConsistent ==
    (/\ QrEncodable
     /\ <<last_op.args.center_x, last_op.args.center_y>> = <<0, 0>>
     /\ FittingVersions(last_op.args.need, last_op.args.module_size) # {}) =>
        /\ returned.info[1] # "too_large"
        /\ returned.value[1] = TRUE

\* The builder operations.
BuilderOps ==
    {"add_stitch", "add_move", "add_color_change", "add_backtack", "add_pattern_end",
     "add_full_ending_sequence", "add_stitch_line", "add_stitch_line_segment",
     "add_rectangle_stitches"}

\* The list begins with the commands decoded from src, End sentinel included.
DecodedPrefixIntact ==
    LET decoded == parse_file(src).commands
    IN  /\ Len(commands) >= Len(decoded)
        /\ SubSeq(commands, 1, Len(decoded)) = decoded

\* C29: every builder call leaves the commands that were in the list
\* unchanged (type, x, y, raw bytes, order) and only adds commands without raw
\* bytes at the end; so after any sequence of builder calls on a decoded list
\* the decoded prefix, its End sentinel included, is intact.
C29_AppendOnly ==
    /\ [][last_op'.name \in BuilderOps =>
            /\ PrefixKept
            /\ \A k \in 1..Len(Appended) : Appended[k].raw_bytes = <<>>]_vars
    /\ [](src # <<>> => DecodedPrefixIntact)

\* A decoded list (Stitch with its raw bytes, End sentinel) after a color
\* change and a rectangle.
C29_Witness ==
    /\ src # <<>>
    /\ last_op.name = "add_rectangle_stitches"
    /\ Len(commands) > 4
    /\ commands[1] = Cmd("STITCH", 20, 5, <<97, 7, 20, 133>>)
    /\ commands[2] = end_cmd
    /\ commands[3].command_type = "COLOR_CHANGE"
    /\ commands[4].command_type = "MOVE"

\* A known opcode is under the cursor with too few bytes left for its record.
OverrunHere == ByteAt(0) \in KnownB /\ cursor_b + RecLenB(ByteAt(0)) > Len(data)

\* C30, one iteration of the decode loop: the cursor advances by at least 1
\* and at most 5 bytes and stays within the buffer; the iteration appends one
\* command whose raw data is the slice between the old and the new cursor, or
\* nothing when a known opcode has too few bytes left.
C30_Iteration ==
    AtBoundary =>
        /\ data' = data
        /\ cursor_b' - cursor_b \in 1..5
        /\ cursor_b' <= Len(data)
        /\ SubSeq(commands_b', 1, Len(commands_b)) = commands_b
        /\ IF OverrunHere
           THEN AppendedB = <<>>
           ELSE /\ Len(AppendedB) = 1
                /\ AppendedB[1].raw_data = Slice(data, cursor_b, cursor_b')

\* C30, the bytes read so far: the raw data of the emitted commands does not
\* reach past the cursor and, when nothing was skipped, is the input up to the
\* cursor; once the loop has ended on a buffer in which no known opcode is met
\* with too few remaining bytes, it is the whole input.
C30_BytesRead ==
    /\ cursor_b <= Len(data)
    /\ Len(RawDataB(commands_b)) <= cursor_b
    /\ Len(RawDataB(commands_b)) = cursor_b => RawDataB(commands_b) = Slice(data, 0, cursor_b)
    /\ (cursor_b >= Len(data) /\ StopCursor(data, 0) >= Len(data)) =>
           RawDataB(commands_b) = data

\* C30: Format B decode terminates and reads no byte twice. Every iteration
\* advances the cursor by 1 to 5 bytes within the buffer, so the loop, once
\* started, reaches the end of the buffer; the raw data of the emitted
\* commands are slices of the input between consecutive cursor positions,
\* hence non-overlapping and in increasing offset order; when no known opcode
\* is met with too few remaining bytes their concatenation is the whole input.
C30_DecodeTerminates ==
    /\ [][C30_Iteration]_vars
    /\ []C30_BytesRead
    /\ AtBoundary ~> (cursor_b >= Len(data))

\* The loop has ended on a buffer of two records (5 + 4 bytes) and the raw
\* data of the two commands is the buffer.
C30_Witness ==
    /\ ParsedB
    /\ Len(data) = 9
    /\ Len(commands_b) = 2
    /\ commands_b[1].command_type = "LINEAR_MOVE"
    /\ commands_b[1].raw_data = SubSeq(data, 1, 5)
    /\ commands_b[2].command_type = "POINT"
    /\ commands_b[2].raw_data = SubSeq(data, 6, 9)
    /\ RawDataB(commands_b) = data

====
